---------------------------- MODULE Spec2Model ----------------------------
(***************************************************************************)
(* Släktkort - Riksarkivet provider layer (ra-providers.js).               *)
(*                                                                         *)
(* The repository holds several revisions of the provider layer.  The      *)
(* model covers the revisions named below; `variant' says which one a      *)
(* call runs in:                                                           *)
(*   "v41"   AO-API-03 PATCH v4.1   src/unnamed/part_003:365-784           *)
(*   "v4"    AO-API-03 PATCH v4     src/app/assets/js/ra-providers.js      *)
(*   "ao01"  AO-API-01 (proxy/direct) src/unnamed/part_001                 *)
(*   "patch" AO-API-03 PATCH        src/unnamed/part_004:22-251            *)
(*   "final" AO-API-03 FINAL        src/unnamed/part_000                   *)
(*                                                                         *)
(* JavaScript strings are sequences of one-character strings, so that      *)
(* trim, toLowerCase, includes and the regular expressions are computed    *)
(* as the code computes them.  JavaScript values are tagged pairs.         *)
(*                                                                         *)
(* The enrichment providers are modelled in two revisions:                 *)
(*   "ao03"  AO-API-03 enrich       src/unnamed/part_002                   *)
(*   "v41"   the stubs of           src/unnamed/part_003:721-757           *)
(*                                                                         *)
(* Spec is a search call from its start to its result; SpecPick is         *)
(* pickProvider, SpecDemo the demo search over a range of queries,         *)
(* SpecDate parseDateRangeFromMetadataDate over a range of date texts,     *)
(* SpecCandidate makeCandidate over a range of why lists and SpecEnrich    *)
(* an enrich call from its start to its result.                            *)
(*                                                                         *)
(* The backend (server/src/index.js, listed in src/README.md:155-646) is   *)
(* modelled by its tables and one action per route.  SpecRelationer and    *)
(* SpecRoller run the same routes from the empty database; the first has   *)
(* one account and room for a family, the second two accounts and a small  *)
(* tree; SpecForest has one account with two trees.  The provider layer    *)
(* and the backend share no state: each                                    *)
(* specification leaves the other side's variables alone.                  *)
(*                                                                         *)
(* SpecFlight runs several search and enrich calls of PATCH v4.1 and of    *)
(* part_002 at the same time, each with the AbortController and the timer  *)
(* of its own abortableFetch; SpecFlightFair adds that an armed timer      *)
(* fires.                                                                  *)
(***************************************************************************)
EXTENDS Integers, Sequences, FiniteSets, TLC

VARIABLES
    variant,      \* revision of the provider layer the current call runs in
    proxySet,     \* AO-API-01: whether PROXY_BASE is configured
    preferred,    \* argument of the last pickProvider call
    allowNetwork, \* AO-API-01: opts.allowNetwork of the last pickProvider call
    provider,     \* id of the provider picked, or of the one whose search() runs
    query,        \* the query argument of the current call
    pc,           \* position of the current call
    fetchCalls,   \* number of fetch() invocations made by the current call
    response,     \* what the upstream answered to the current call
    outcome,      \* how the call settled: a Candidate list or a thrown Error
    origin,       \* for each returned Candidate, the index of its raw item
    arg,          \* input of parseDateRangeFromMetadataDate
    ret,          \* its result
    users,            \* backend table users: the emails, row id = position
    trees,            \* backend table trees: the ids of its rows
    tree_members,     \* backend table tree_members: rows treeId, userId, role
    slaktkort,        \* backend table slaktkort: rows id, treeId
    relationer,       \* backend table relationer: rows id, treeId, franPersonId, tillPersonId
    sqlite_sequence,  \* last AUTOINCREMENT id handed out for slaktkort and relationer
    req,              \* the last request the backend handled
    res,              \* the reply it sent
    call,             \* the concurrent calls: kind, input, position and outcome of each
    controller,       \* the AbortController abortableFetch made for each call
    timer,            \* the setTimeout timer abortableFetch made for each call
    upstream          \* what the upstream did with the request of each call

clientVars == <<variant, proxySet, preferred, allowNetwork, provider, query, pc, fetchCalls, response, outcome, origin, arg, ret>>

backendVars == <<users, trees, tree_members, slaktkort, relationer, sqlite_sequence, req, res>>

flightVars == <<call, controller, timer, upstream>>

vars == <<clientVars, backendVars, flightVars>>

\* before the first request
NoRequest == [route |-> "", cookie |-> <<"undefined", 0>>, treeId |-> <<"undefined", 0>>, id |-> <<"undefined", 0>>, body |-> <<"undefined", 0>>]

NoReply == [status |-> 0, error |-> ""]

\* data.sqlite right after the CREATE TABLE IF NOT EXISTS statements of a first start
DbInit ==
    /\ users = <<>>
    /\ trees = {}
    /\ tree_members = {}
    /\ slaktkort = {}
    /\ relationer = {}
    /\ sqlite_sequence = [slaktkort |-> 0, relationer |-> 0]
    /\ req = NoRequest
    /\ res = NoReply

\* the most calls in flight at once
MaxCalls == 2

Calls == 1..MaxCalls

\* no call has been made
NoFlights ==
    /\ call = [c \in Calls |-> [kind |-> "none", input |-> <<"undefined", 0>>, pc |-> "idle",
                                outcome |-> [kind |-> "pending", list |-> <<>>, error |-> [name |-> "", message |-> <<>>]]]]
    /\ controller = [c \in Calls |-> "none"]
    /\ timer = [c \in Calls |-> "none"]
    /\ upstream = [c \in Calls |-> [phase |-> "none", name |-> <<>>, status |-> 0, json |-> <<"undefined", 0>>]]

-----------------------------------------------------------------------------
(* Strings *)

Max(a, b) == IF a >= b THEN a ELSE b
Min(a, b) == IF a <= b THEN a ELSE b

UpperChars == <<"A","B","C","D","E","F","G","H","I","J","K","L","M","N","O","P","Q","R","S","T","U","V","W","X","Y","Z","Å","Ä","Ö">>
LowerChars == <<"a","b","c","d","e","f","g","h","i","j","k","l","m","n","o","p","q","r","s","t","u","v","w","x","y","z","å","ä","ö">>
DigitChars == <<"0","1","2","3","4","5","6","7","8","9">>

Range(f) == { f[i] : i \in DOMAIN f }

IsDigit(c) == c \in Range(DigitChars)
IsAsciiLetter(c) == \E i \in 1..26 : c = UpperChars[i] \/ c = LowerChars[i]
\* \w of a JavaScript regular expression without the u flag
IsWordChar(c) == IsAsciiLetter(c) \/ IsDigit(c) \/ c = "_"
\* \s (the characters the inputs use)
IsSpace(c) == c \in {" ", "\t", "\n"}

ToLowerChar(c) ==
    IF \E i \in DOMAIN UpperChars : UpperChars[i] = c
    THEN LowerChars[CHOOSE i \in DOMAIN UpperChars : UpperChars[i] = c]
    ELSE c

\* String.prototype.toLowerCase
toLowerCase(s) == [i \in 1..Len(s) |-> ToLowerChar(s[i])]

\* String.prototype.trim
trim(s) ==
    IF \A i \in 1..Len(s) : IsSpace(s[i]) THEN <<>>
    ELSE LET a == CHOOSE i \in 1..Len(s) : ~IsSpace(s[i]) /\ \A j \in 1..(i-1) : IsSpace(s[j])
             b == CHOOSE i \in 1..Len(s) : ~IsSpace(s[i]) /\ \A j \in (i+1)..Len(s) : IsSpace(s[j])
         IN SubSeq(s, a, b)

\* s.startsWith(p) at position i (1-based)
MatchAt(s, p, i) == i >= 1 /\ i + Len(p) - 1 <= Len(s) /\ SubSeq(s, i, i + Len(p) - 1) = p

\* String.prototype.includes
includes(s, p) == \E i \in 1..(Len(s) + 1) : MatchAt(s, p, i)

DigitVal(c) == (CHOOSE i \in DOMAIN DigitChars : DigitChars[i] = c) - 1

RECURSIVE DigitsToNat(_)
DigitsToNat(s) == IF s = <<>> THEN 0 ELSE 10 * DigitsToNat(SubSeq(s, 1, Len(s) - 1)) + DigitVal(s[Len(s)])

RECURSIVE NatToDigits(_)
NatToDigits(n) == IF n < 10 THEN <<DigitChars[n + 1]>> ELSE NatToDigits(n \div 10) \o <<DigitChars[(n % 10) + 1]>>

-----------------------------------------------------------------------------
(* JavaScript values: the pair <<type tag, value>>.  An object is its       *)
(* sequence of <<key, value>> entries, in insertion order (the order of     *)
(* Object.keys).                                                            *)

Undefined == <<"undefined", 0>>
Null == <<"null", 0>>
JStr(s) == <<"str", s>>
JNum(n) == <<"num", n>>
JBool(b) == <<"bool", b>>
JArr(a) == <<"arr", a>>
JObj(entries) == <<"obj", entries>>

\* ToBoolean
Truthy(x) ==
    CASE x[1] = "undefined" -> FALSE
      [] x[1] = "null" -> FALSE
      [] x[1] = "str" -> x[2] # <<>>
      [] x[1] = "num" -> x[2] # 0
      [] x[1] = "bool" -> x[2]
      [] x[1] = "nan" -> FALSE
      [] OTHER -> TRUE

\* a || b,  a && b,  a ?? b
Or(a, b) == IF Truthy(a) THEN a ELSE b
And(a, b) == IF Truthy(a) THEN b ELSE a
Nullish(a, b) == IF a[1] \in {"undefined", "null"} THEN b ELSE a

\* typeof x === "object"
IsObjectType(x) == x[1] \in {"obj", "arr", "null"}

\* Array.isArray
IsArray(x) == x[1] = "arr"

\* x[k] for a string key k (undefined on a primitive; the code guards null)
Get(x, k) ==
    IF x[1] = "obj" /\ \E i \in 1..Len(x[2]) : x[2][i][1] = k
    THEN x[2][CHOOSE i \in 1..Len(x[2]) : x[2][i][1] = k][2]
    ELSE Undefined

\* the own enumerable property values of x, in Object.keys order
OwnValues(x) ==
    CASE x[1] = "obj" -> [i \in 1..Len(x[2]) |-> x[2][i][2]]
      [] x[1] = "arr" -> x[2]
      [] OTHER -> <<>>

RECURSIVE JoinWith(_, _)
JoinWith(parts, sep) ==
    IF parts = <<>> THEN <<>>
    ELSE IF Len(parts) = 1 THEN parts[1]
    ELSE parts[1] \o sep \o JoinWith(Tail(parts), sep)

\* String(x)
RECURSIVE String(_)
String(x) ==
    CASE x[1] = "str" -> x[2]
      [] x[1] = "num" -> NatToDigits(x[2])
      [] x[1] = "bool" -> IF x[2] THEN <<"t","r","u","e">> ELSE <<"f","a","l","s","e">>
      [] x[1] = "null" -> <<"n","u","l","l">>
      [] x[1] = "undefined" -> <<"u","n","d","e","f","i","n","e","d">>
      [] x[1] = "nan" -> <<"N","a","N">>
      [] x[1] = "arr" ->
            JoinWith([i \in 1..Len(x[2]) |->
                        IF x[2][i][1] \in {"null", "undefined"} THEN <<>> ELSE String(x[2][i])], <<",">>)
      [] OTHER -> <<"[","o","b","j","e","c","t"," ","O","b","j","e","c","t","]">>

\* the number NaN
NaN == <<"nan", 0>>

\* Number(x) for the values the inputs use (non-negative integers)
Number(x) ==
    CASE x[1] = "num" -> x
      [] x[1] = "nan" -> NaN
      [] x[1] = "null" -> JNum(0)
      [] x[1] = "bool" -> JNum(IF x[2] THEN 1 ELSE 0)
      [] x[1] = "str" ->
            LET s == trim(x[2])
            IN IF s = <<>> THEN JNum(0)
               ELSE IF \A i \in 1..Len(s) : IsDigit(s[i]) THEN JNum(DigitsToNat(s))
               ELSE NaN
      [] OTHER -> NaN

\* Number.isFinite
IsFinite(x) == x[1] = "num"

SelectSeqNonEmpty(ss) == SelectSeq(ss, LAMBDA s : s # <<>>)

-----------------------------------------------------------------------------
(* Helper functions of the provider layer *)

\* String(s || "").trim().toLowerCase()
normalize(s) == toLowerCase(trim(String(Or(s, JStr(<<>>)))))

safeArray(x) == IF IsArray(x) THEN x[2] ELSE <<>>

clampInt(v, min, max, fallback) == Min(Max(v, min), max)

\* /^https?:\/\//i
IsHttpUrl(u) == MatchAt(toLowerCase(u), <<"h","t","t","p",":","/","/">>, 1) \/ MatchAt(toLowerCase(u), <<"h","t","t","p","s",":","/","/">>, 1)

safeUrl(s) ==
    LET u == trim(String(Or(s, JStr(<<>>))))
    IN IF u = <<>> THEN <<>>
       ELSE IF ~IsHttpUrl(u) THEN <<>>
       ELSE u

PickTextKeys == <<"text", "value", "label", "title", "name", "caption", "displayName", "content">>

RECURSIVE FirstNonNullish(_, _, _)
FirstNonNullish(x, keys, dflt) ==
    IF keys = <<>> THEN dflt
    ELSE Nullish(Get(x, Head(keys)), FirstNonNullish(x, Tail(keys), dflt))

RECURSIVE pickText(_)
pickText(x) ==
    CASE x[1] \in {"undefined", "null"} -> <<>>
      [] x[1] = "str" -> trim(x[2])
      [] x[1] \in {"num", "nan"} -> String(x)
      [] x[1] = "arr" ->
            trim(JoinWith(SelectSeqNonEmpty([i \in 1..Len(x[2]) |-> pickText(x[2][i])]), <<" ">>))
      [] x[1] = "obj" -> pickText(FirstNonNullish(x, PickTextKeys, JStr(<<>>)))
      [] OTHER -> String(x)

\* variation: no placeholder is made
makeTmpId_Mutant(seed) == <<>>

\* crypto.randomUUID() or "tmp_" + time + random: a fresh non-empty id; the
\* model numbers it by the position of the item it is made for
makeTmpId(seed) == <<"t","m","p","_">> \o NatToDigits(seed)

\* variation: /\b[0-9]{4}\b/, any four digits
YearMatchAt_Mutant(s, p) ==
    /\ p >= 1 /\ p + 3 <= Len(s)
    /\ \A j \in p..(p + 3) : IsDigit(s[j])
    /\ p = 1 \/ ~IsWordChar(s[p - 1])
    /\ p + 3 = Len(s) \/ ~IsWordChar(s[p + 4])

\* one match of /\b(1[0-9]{3}|20[0-9]{2})\b/ at position p of s
YearMatchAt(s, p) ==
    /\ p >= 1 /\ p + 3 <= Len(s)
    /\ \A j \in p..(p + 3) : IsDigit(s[j])
    /\ \/ s[p] = "1"
       \/ s[p] = "2" /\ s[p + 1] = "0"
    /\ p = 1 \/ ~IsWordChar(s[p - 1])
    /\ p + 3 = Len(s) \/ ~IsWordChar(s[p + 4])

\* s.match(/.../g): the matches left to right, each search resuming after the last
RECURSIVE YearMatchesFrom(_, _)
YearMatchesFrom(s, from) ==
    IF \E p \in from..Len(s) : YearMatchAt(s, p)
    THEN LET p == CHOOSE q \in from..Len(s) : YearMatchAt(s, q) /\ \A r \in from..(q - 1) : ~YearMatchAt(s, r)
         IN <<SubSeq(s, p, p + 3)>> \o YearMatchesFrom(s, p + 4)
    ELSE <<>>

parseDateRangeFromMetadataDate(dateStr) ==
    LET s == pickText(dateStr)
        years == YearMatchesFrom(s, 1)
        a == IF Len(years) >= 1 THEN JNum(DigitsToNat(years[1])) ELSE Null
        b == IF Len(years) >= 2 THEN JNum(DigitsToNat(years[2])) ELSE Null
    IN IF s = <<>> THEN [birthYear |-> Null, deathYear |-> Null]
       ELSE [birthYear |-> a, deathYear |-> b]

TryKeys == <<"html", "self", "alternate", "record", "ui", "web">>

\* the first safe href among the elements of an array node
RECURSIVE FirstHrefInArray(_)
FirstHrefInArray(items) ==
    IF items = <<>> THEN <<>>
    ELSE LET u == safeUrl(And(Head(items), Get(Head(items), "href")))
         IN IF u # <<>> THEN u ELSE FirstHrefInArray(Tail(items))

\* what one pass of the tryKeys loop returns for node (<<>>: continue)
HrefOfTryNode(node) ==
    IF ~Truthy(node) THEN <<>>
    ELSE LET u == IF IsObjectType(node) /\ Truthy(Get(node, "href")) THEN safeUrl(Get(node, "href")) ELSE <<>>
         IN IF u # <<>> THEN u
            ELSE IF IsArray(node) THEN FirstHrefInArray(node[2])
            ELSE <<>>

HrefOfAnyNode(node) ==
    IF Truthy(node) /\ IsObjectType(node) /\ Truthy(Get(node, "href")) THEN safeUrl(Get(node, "href")) ELSE <<>>

RECURSIVE FirstNonEmpty(_)
FirstNonEmpty(ss) == IF ss = <<>> THEN <<>> ELSE IF Head(ss) # <<>> THEN Head(ss) ELSE FirstNonEmpty(Tail(ss))

extractUrlFromLinks(links) ==
    IF ~Truthy(links) \/ ~IsObjectType(links) THEN <<>>
    ELSE LET byKey == FirstNonEmpty([i \in 1..Len(TryKeys) |-> HrefOfTryNode(Get(links, TryKeys[i]))])
             vals == OwnValues(links)
         IN IF byKey # <<>> THEN byKey
            ELSE FirstNonEmpty([i \in 1..Len(vals) |-> HrefOfAnyNode(vals[i])])

-----------------------------------------------------------------------------
(* Person filter, PATCH v4.1 *)

NEGATIVE_TYPE_TOKENS == <<
    <<"r","e","c","o","r","d","s","e","t">>, <<"r","e","c","o","r","d"," ","s","e","t">>, <<"r","e","c","o","r","d">>, <<"a","r","k","i","v">>, <<"s","e","r","i","e","s">>,
    <<"p","l","a","c","e">>, <<"o","r","t">>, <<"s","o","c","k","e","n">>,
    <<"b","u","i","l","d","i","n","g">>, <<"b","y","g","g","n","a","d">>,
    <<"d","r","a","w","i","n","g">>, <<"r","i","t","n","i","n","g">>, <<"s","k","i","s","s">>, <<"f","a","s","a","d">>, <<"p","l","a","n">>,
    <<"m","a","p">>, <<"k","a","r","t","a">>,
    <<"p","h","o","t","o","g","r","a","p","h">>, <<"f","o","t","o">>, <<"b","i","l","d">> >>

\* Array.from(new Set(xs)): first occurrences, in order
RECURSIVE Dedupe(_)
Dedupe(xs) ==
    IF xs = <<>> THEN <<>>
    ELSE LET rest == Dedupe(SubSeq(xs, 1, Len(xs) - 1))
             x == xs[Len(xs)]
         IN IF \E i \in 1..Len(rest) : rest[i] = x THEN rest ELSE Append(rest, x)

\* bag.flatMap(v => Array.isArray(v) ? v : [v])
RECURSIVE FlatMapArrays(_)
FlatMapArrays(bag) ==
    IF bag = <<>> THEN <<>>
    ELSE (IF IsArray(Head(bag)) THEN Head(bag)[2] ELSE <<Head(bag)>>) \o FlatMapArrays(Tail(bag))

TypeFieldKeys == <<"objectType", "type", "@type", "recordType", "entityType", "kind", "class">>

collectTypeTokens(r) ==
    LET md == Get(r, "metadata")
        bag == [i \in 1..Len(TypeFieldKeys) |-> And(r, Get(r, TypeFieldKeys[i]))]
               \o << And(r, And(md,
                        Or(Or(Or(Or(Get(md, "objectType"), Get(md, "type")), Get(md, "@type")),
                              Get(md, "entityType")), Get(md, "recordType")))) >>
        flat == FlatMapArrays(bag)
        merged == SelectSeqNonEmpty([i \in 1..Len(flat) |-> normalize(JStr(pickText(flat[i])))])
    IN Dedupe(merged)

hasNegativeType(typeTokens) ==
    IF Len(typeTokens) = 0 THEN FALSE
    ELSE \E i \in 1..Len(typeTokens) : \E j \in 1..Len(NEGATIVE_TYPE_TOKENS) :
            includes(typeTokens[i], NEGATIVE_TYPE_TOKENS[j])

isLikelyPersonItem(r) ==
    LET typeTokens == collectTypeTokens(r)
        joined == JoinWith(typeTokens, <<" ","|"," ">>)
        hasAgent == includes(joined, <<"a","g","e","n","t">>)
        hasPerson == includes(joined, <<"p","e","r","s","o","n">>)
        ot == normalize(JStr(pickText(And(r, Get(r, "objectType")))))
        tp == normalize(JStr(pickText(And(r, Get(r, "type")))))
    IN IF hasNegativeType(typeTokens) THEN FALSE
       ELSE IF ot = <<"a","g","e","n","t">> /\ (tp = <<"p","e","r","s","o","n">> \/ includes(tp, <<"p","e","r","s","o","n">>)) THEN TRUE
       ELSE IF hasAgent /\ hasPerson THEN TRUE
       ELSE FALSE

\* candidates.filter(Boolean)
SelectTruthy(xs) == SelectSeq(xs, LAMBDA x : Truthy(x))

extractBestPersonName(r) ==
    LET md == Get(r, "metadata")
        candidates == <<
            And(r, Get(r, "displayName")),
            And(r, Get(r, "name")),
            And(r, Get(r, "personName")),
            And(r, Get(r, "agentName")),
            And(r, And(md, Or(Or(Or(Get(md, "name"), Get(md, "personName")), Get(md, "agentName")),
                              Get(md, "displayName")))),
            And(r, Get(r, "caption")),
            And(r, Get(r, "title")),
            And(r, Get(r, "label")),
            And(r, And(md, Get(md, "title"))) >>
    IN trim(pickText(JArr(SelectTruthy(candidates))))

\* s.split(/\s+/).filter(Boolean).length
WordCount(s) ==
    Cardinality({ i \in 1..Len(s) : ~IsSpace(s[i]) /\ (i = 1 \/ IsSpace(s[i - 1])) })

\* /[A-Za-zÅÄÖåäö]/
HasLetter(s) == \E i \in 1..Len(s) : s[i] \in Range(UpperChars) \cup Range(LowerChars)

BadWords_v41 == <<
    <<"k","a","p","e","l","l">>, <<"k","y","r","k","a">>, <<"k","y","r","k","o","g","å","r","d">>, <<"f","ö","r","s","a","m","l","i","n","g">>,
    <<"r","i","t","n","i","n","g">>, <<"s","k","i","s","s">>, <<"f","a","s","a","d">>, <<"p","l","a","n">>, <<"b","y","g","g","n","a","d">>,
    <<"s",":","t">>, <<"s","t",".">>,
    <<"i","n","v","e","n","t","e","r","i","n","g">>, <<"f","ö","r","t","e","c","k","n","i","n","g">>, <<"s","e","r","i","e">>, <<"v","o","l","y","m">> >>

looksLikePersonName(s) ==
    LET t == trim(s)
        low == toLowerCase(t)
    IN IF t = <<>> THEN FALSE
       ELSE IF Len(t) < 2 THEN FALSE
       ELSE IF Len(t) > 80 THEN FALSE
       ELSE IF ~HasLetter(t) THEN FALSE
       ELSE IF includes(t, <<":">>) THEN FALSE
       ELSE IF \E i \in 1..Len(BadWords_v41) : includes(low, BadWords_v41[i]) THEN FALSE
       ELSE IF includes(t, <<",">>) THEN TRUE
       ELSE IF WordCount(t) >= 1 /\ WordCount(t) <= 4 THEN TRUE
       ELSE FALSE

-----------------------------------------------------------------------------
(* Person filter, PATCH v4 *)

\* variation: a filter that lets every item through
isPersonItem_Mutant(r) == TRUE

isPersonItem(r) ==
    LET otN == normalize(JStr(pickText(And(r, Get(r, "objectType")))))
        tpN == normalize(JStr(pickText(And(r, Get(r, "type")))))
    IN IF otN = <<"a","g","e","n","t">> /\ tpN = <<"p","e","r","s","o","n">> THEN TRUE
       ELSE IF otN = <<"a","g","e","n","t">> /\ includes(tpN, <<"p","e","r","s","o","n">>) THEN TRUE
       ELSE FALSE

BadWords_v4 == << <<"k","a","p","e","l","l">>, <<"k","y","r","k","a">>, <<"s","k","i","s","s">>, <<"f","a","s","a","d">>, <<"p","l","a","n">>, <<"b","y","g","g","n","a","d">>, <<"k","y","r","k","v","a","l","l","e","n">> >>

looksLikePersonName_v4(s) ==
    LET t == trim(s)
        low == toLowerCase(t)
    IN IF t = <<>> THEN FALSE
       ELSE IF Len(t) < 3 THEN FALSE
       ELSE IF includes(t, <<",">>) THEN TRUE
       ELSE IF WordCount(t) < 2 THEN FALSE
       ELSE IF \E i \in 1..Len(BadWords_v4) : includes(low, BadWords_v4[i]) THEN FALSE
       ELSE TRUE

-----------------------------------------------------------------------------
(* Candidate format.  A Candidate's strings are character sequences, its    *)
(* years JavaScript values (null or a number).                              *)

\* safeArray(o.why).map(String)
WhyStrings(why) == [i \in 1..Len(safeArray(why)) |-> String(safeArray(why)[i])]

\* makeCandidate of the AO-API-03 revisions (v2 - v4.1, PATCH, FINAL)
makeCandidate(o) ==
    [ id |-> String(Or(o.id, JStr(<<>>))),
      name |-> String(Or(o.name, JStr(<<>>))),
      birthYear |-> Nullish(o.birthYear, Null),
      deathYear |-> Nullish(o.deathYear, Null),
      place |-> String(Or(o.place, JStr(<<>>))),
      source |-> String(Or(o.source, JStr(<<>>))),
      url |-> safeUrl(Or(o.url, JStr(<<>>))),
      why |-> WhyStrings(o.why) ]

\* AO-API-01
toStr(x) == String(IF x[1] \in {"undefined", "null"} THEN JStr(<<>>) ELSE x)

mustString(x) == trim(toStr(x))

makeCandidate_ao01(c) ==
    [ id |-> mustString(c.id),
      name |-> mustString(c.name),
      birthYear |-> IF c.birthYear[1] \in {"undefined", "null"} THEN Null ELSE Number(c.birthYear),
      deathYear |-> IF c.deathYear[1] \in {"undefined", "null"} THEN Null ELSE Number(c.deathYear),
      place |-> mustString(c.place),
      source |-> mustString(c.source),
      url |-> mustString(c.url),
      why |-> SelectSeqNonEmpty([i \in 1..Len(safeArray(c.why)) |-> mustString(safeArray(c.why)[i])]) ]

-----------------------------------------------------------------------------
(* Configuration *)

MAX_LIMIT == 150
DEFAULT_LIMIT == 150
MIN_QUERY_LEN == 3
MAX_LIMIT_AO01 == 200
DEFAULT_LIMIT_AO01 == 50

Variants == {"v41", "v4", "ao01", "patch", "final"}

\* variation: the floor of 2 in every revision
MinQueryLen_Mutant(v) == 2

\* the literal 2 of the revisions without MIN_QUERY_LEN
MinQueryLen(v) == IF v = "v41" THEN MIN_QUERY_LEN ELSE 2

Limit(v) ==
    IF v = "ao01" THEN clampInt(DEFAULT_LIMIT_AO01, 1, MAX_LIMIT_AO01, DEFAULT_LIMIT_AO01)
    ELSE clampInt(DEFAULT_LIMIT, 1, MAX_LIMIT, DEFAULT_LIMIT)

\* how a call settles
Pending == [kind |-> "pending", list |-> <<>>, error |-> [name |-> "", message |-> <<>>]]
Returned(list) == [kind |-> "returned", list |-> list, error |-> [name |-> "", message |-> <<>>]]
Thrown(name, message) == [kind |-> "thrown", list |-> <<>>, error |-> [name |-> name, message |-> message]]

\* a search result with, for each Candidate, the index of the raw item (or
\* demo record) it was made from
Result(out, from) == [outcome |-> out, origin |-> from]

-----------------------------------------------------------------------------
(* Demo provider *)

DemoRecord(id, name, birthYear, deathYear, place) ==
    [id |-> JStr(id), name |-> JStr(name), birthYear |-> JNum(birthYear), deathYear |-> JNum(deathYear),
     place |-> JStr(place), source |-> Undefined, url |-> Undefined, why |-> Undefined]

DEMO_DATA == <<
    DemoRecord(<<"d","1">>, <<"K","a","r","l"," ","J","o","h","a","n","s","s","o","n">>, 1872, 1939, <<"F","a","l","u","n">>),
    DemoRecord(<<"d","2">>, <<"A","n","n","a"," ","P","e","r","s","d","o","t","t","e","r">>, 1878, 1951, <<"L","e","k","s","a","n","d">>),
    DemoRecord(<<"d","3">>, <<"E","r","i","k"," ","L","i","n","d">>, 1901, 1977, <<"G","ä","v","l","e">>),
    DemoRecord(<<"d","4">>, <<"M","a","r","i","a"," ","N","i","l","s","d","o","t","t","e","r">>, 1822, 1890, <<"U","p","p","s","a","l","a">>) >>

DemoRecord_ao01(id, name, birthYear, deathYear, place) ==
    [id |-> JStr(id), name |-> JStr(name), birthYear |-> JNum(birthYear), deathYear |-> JNum(deathYear),
     place |-> JStr(place), source |-> JStr(<<"D","e","m","o">>), url |-> JStr(<<>>), why |-> JArr(<<JStr(<<"D","e","m","o","-","p","o","s","t">>)>>)]

DEMO == <<
    DemoRecord_ao01(<<"d","e","m","o","_","1">>, <<"K","a","r","l"," ","J","o","h","a","n","s","s","o","n">>, 1872, 1939, <<"F","a","l","u","n">>),
    DemoRecord_ao01(<<"d","e","m","o","_","2">>, <<"A","n","n","a"," ","P","e","r","s","d","o","t","t","e","r">>, 1878, 1951, <<"L","e","k","s","a","n","d">>),
    DemoRecord_ao01(<<"d","e","m","o","_","3">>, <<"E","r","i","k"," ","L","i","n","d">>, 1901, 1977, <<"G","ä","v","l","e">>),
    DemoRecord_ao01(<<"d","e","m","o","_","4">>, <<"M","a","r","i","a"," ","N","i","l","s","d","o","t","t","e","r">>, 1822, 1890, <<"U","p","p","s","a","l","a">>),
    DemoRecord_ao01(<<"d","e","m","o","_","5">>, <<"O","l","o","f"," ","B","e","r","g","s","t","r","ö","m">>, 1799, 1866, <<"Ö","r","e","b","r","o">>) >>

DemoData(v) == IF v = "ao01" THEN DEMO ELSE DEMO_DATA

\* the indices of xs in order; xs.filter(test) is kept as the selected indices
Indices(xs) == [i \in 1..Len(xs) |-> i]

\* xs.slice(0, n)
Slice(xs, n) == SubSeq(xs, 1, Min(n, Len(xs)))

\* normalize of AO-API-01: toStr(s).trim().toLowerCase()
normalize_ao01(x) == toLowerCase(trim(toStr(x)))

\* variation: a filter on the name alone
DemoMatches_Mutant(p, q) == includes(normalize(p.name), q)

\* the predicate of DEMO_DATA.filter(...)
DemoMatches(p, q) == includes(normalize(p.name), q) \/ includes(normalize(p.place), q)

\* DemoProvider.search(query)
DemoSearch(v, queryArg) ==
    LET q == IF v = "ao01" THEN normalize_ao01(queryArg) ELSE normalize(queryArg)
        data == DemoData(v)
        hits == SelectSeq(Indices(data), LAMBDA i : DemoMatches(data[i], q))
        kept == IF v = "v41" THEN Slice(hits, MAX_LIMIT) ELSE hits
    IN IF Len(q) < MinQueryLen(v) THEN Result(Returned(<<>>), <<>>)
       ELSE IF v = "ao01"
            THEN Result(Returned([i \in 1..Len(kept) |-> makeCandidate_ao01(data[kept[i]])]), kept)
       ELSE Result(Returned([i \in 1..Len(kept) |->
                makeCandidate([data[kept[i]] EXCEPT !.source = JStr(<<"D","e","m","o">>),
                                                    !.why = JArr(<<JStr(<<"D","e","m","o","-","p","o","s","t">>)>>)])]), kept)

-----------------------------------------------------------------------------
(* Remote search: what runs after res.json() resolved with `json' *)

\* r && r.metadata ? r.metadata.date : ""
MdDate(r) == IF Truthy(And(r, Get(r, "metadata"))) THEN Get(Get(r, "metadata"), "date") ELSE JStr(<<>>)

\* (r.metadata && (r.metadata.place || r.metadata.location || r.metadata.ort))
MdPlace(r) ==
    LET md == Get(r, "metadata")
    IN And(md, Or(Or(Get(md, "place"), Get(md, "location")), Get(md, "ort")))

\* [label, mdDate ? ("Datum: " + pickText(mdDate)) : ""].filter(Boolean)
WhyWithDate(label, mdDate) ==
    JArr(SelectTruthy(<< JStr(label),
                         IF Truthy(mdDate) THEN JStr(<<"D","a","t","u","m",":"," ">> \o pickText(mdDate)) ELSE JStr(<<>>) >>))

\* the Candidate PATCH v4.1 makes of person item r with display name `name'
Candidate_v41(r, name, seed) ==
    LET years == parseDateRangeFromMetadataDate(MdDate(r))
    IN makeCandidate(
        [ id |-> Or(JStr(pickText(And(r, Or(Get(r, "id"), Get(r, "identifier"))))), JStr(makeTmpId(seed))),
          name |-> JStr(name),
          birthYear |-> years.birthYear,
          deathYear |-> years.deathYear,
          place |-> Or(JStr(pickText(Or(Or(And(r, Or(Get(r, "place"), Get(r, "location"))),
                                           And(r, MdPlace(r))), JStr(<<>>)))), JStr(<<>>)),
          source |-> JStr(<<"R","i","k","s","a","r","k","i","v","e","t">>),
          url |-> Or(JStr(extractUrlFromLinks(And(r, Or(Get(r, "_links"), Get(r, "links"))))), JStr(<<>>)),
          why |-> WhyWithDate(<<"M","a","t","c","h"," ","v","i","a"," ","n","a","m","n"," ","(","P","e","r","s","o","n","/","A","g","e","n","t",")">>, MdDate(r)) ])

\* the for loop of PATCH v4.1 over personItems (indices idxs into raw): items
\* whose name fails looksLikePersonName are skipped, the loop breaks once
\* out holds `limit' Candidates, and out.slice(0, limit) is returned
MapLoop_v41(raw, idxs) ==
    LET named == SelectSeq(idxs, LAMBDA i : looksLikePersonName(extractBestPersonName(raw[i])))
        kept == Slice(named, Limit("v41"))
    IN Result(Returned([k \in 1..Len(kept) |->
                  Candidate_v41(raw[kept[k]], extractBestPersonName(raw[kept[k]]), kept[k])]), kept)

\* (json && (json.items || json.records || json.data || json.results)) || []
RawItems_v41(json) ==
    Or(And(json, Or(Or(Or(Get(json, "items"), Get(json, "records")), Get(json, "data")), Get(json, "results"))),
       JArr(<<>>))

\* variation: fail-open, the unfiltered raw items are mapped when the filter
\* leaves none
AfterJson_v41_Mutant(json) ==
    LET rawItems == RawItems_v41(json)
        personItems == SelectSeq(Indices(rawItems[2]), LAMBDA i : isLikelyPersonItem(rawItems[2][i]))
    IN IF ~IsArray(rawItems) \/ Len(rawItems[2]) = 0 THEN Result(Returned(<<>>), <<>>)
       ELSE IF Len(personItems) = 0 THEN MapLoop_v41(rawItems[2], Indices(rawItems[2]))
       ELSE MapLoop_v41(rawItems[2], personItems)

AfterJson_v41(json) ==
    LET rawItems == RawItems_v41(json)
        personItems == SelectSeq(Indices(rawItems[2]), LAMBDA i : isLikelyPersonItem(rawItems[2][i]))
    IN IF ~IsArray(rawItems) \/ Len(rawItems[2]) = 0 THEN Result(Returned(<<>>), <<>>)
       ELSE IF Len(personItems) = 0 THEN Result(Returned(<<>>), <<>>)
       ELSE MapLoop_v41(rawItems[2], personItems)

\* pickText(r.caption || r.name || r.title || r.label || (r.metadata && r.metadata.title))
Caption_v4(r) ==
    pickText(Or(Or(Or(Or(Get(r, "caption"), Get(r, "name")), Get(r, "title")), Get(r, "label")),
                And(Get(r, "metadata"), Get(Get(r, "metadata"), "title"))))

Candidate_v4(r, caption, seed) ==
    LET years == parseDateRangeFromMetadataDate(MdDate(r))
    IN makeCandidate(
        [ id |-> Or(JStr(pickText(Or(Get(r, "id"), Get(r, "identifier")))), JStr(makeTmpId(seed))),
          name |-> JStr(caption),
          birthYear |-> years.birthYear,
          deathYear |-> years.deathYear,
          place |-> Or(JStr(pickText(Or(Or(Get(r, "place"), Get(r, "location")), MdPlace(r)))), JStr(<<>>)),
          source |-> JStr(<<"R","i","k","s","a","r","k","i","v","e","t">>),
          url |-> Or(JStr(extractUrlFromLinks(And(r, Or(Get(r, "_links"), Get(r, "links"))))), JStr(<<>>)),
          why |-> WhyWithDate(<<"M","a","t","c","h"," ","v","i","a"," ","n","a","m","n"," ","(","P","e","r","s","o","n",")">>, MdDate(r)) ])

\* the for loop of PATCH v4 over personItems.slice(0, limit) (indices idxs into
\* raw): items whose caption fails looksLikePersonName are skipped, and
\* out.slice(0, limit) is returned
MapLoop_v4(raw, idxs) ==
    LET named == SelectSeq(idxs, LAMBDA i : looksLikePersonName_v4(Caption_v4(raw[i])))
        kept == Slice(named, Limit("v4"))
    IN Result(Returned([k \in 1..Len(kept) |-> Candidate_v4(raw[kept[k]], Caption_v4(raw[kept[k]]), kept[k])]),
              kept)

\* json.items || json.records || json.data || json.results || []
RawItems_v4(json) ==
    safeArray(Or(Or(Or(Or(Get(json, "items"), Get(json, "records")), Get(json, "data")), Get(json, "results")),
                 JArr(<<>>)))

\* reading a property of null or undefined throws a TypeError
AfterJson_v4(json) ==
    LET rawItems == RawItems_v4(json)
        personItems == SelectSeq(Indices(rawItems), LAMBDA i : isPersonItem(rawItems[i]))
    IN IF json[1] \in {"null", "undefined"}
       THEN Result(Thrown("TypeError", <<"C","a","n","n","o","t"," ","r","e","a","d"," ","p","r","o","p","e","r","t","i","e","s"," ","o","f"," ","n","u","l","l">>), <<>>)
       ELSE IF Len(rawItems) = 0 THEN Result(Returned(<<>>), <<>>)
       ELSE IF Len(personItems) = 0 THEN Result(Returned(<<>>), <<>>)
       ELSE MapLoop_v4(rawItems, Slice(personItems, Limit("v4")))

\* AO-API-03 PATCH: records.map(r => makeCandidate({ id: pickText(...), ... })) in a
\* revision that defines no pickText
AfterJson_patch(json) ==
    LET records == safeArray(Or(Or(Or(Or(Get(json, "hits"), Get(json, "records")), Get(json, "items")),
                                   Get(json, "data")), JArr(<<>>)))
    IN IF json[1] \in {"null", "undefined"}
       THEN Result(Thrown("TypeError", <<"C","a","n","n","o","t"," ","r","e","a","d"," ","p","r","o","p","e","r","t","i","e","s"," ","o","f"," ","n","u","l","l">>), <<>>)
       ELSE IF Len(records) = 0 THEN Result(Returned(<<>>), <<>>)
       ELSE Result(Thrown("ReferenceError", <<"p","i","c","k","T","e","x","t"," ","i","s"," ","n","o","t"," ","d","e","f","i","n","e","d">>), <<>>)

EncodeTable == <<
    <<" ", <<"%","2","0">>>>, <<"/", <<"%","2","F">>>>, <<":", <<"%","3","A">>>>, <<"+", <<"%","2","B">>>>, <<",", <<"%","2","C">>>>,
    <<"?", <<"%","3","F">>>>, <<"&", <<"%","2","6">>>>, <<"=", <<"%","3","D">>>>, <<"[", <<"%","5","B">>>>, <<"]", <<"%","5","D">>>>,
    <<"å", <<"%","C","3","%","A","5">>>>, <<"ä", <<"%","C","3","%","A","4">>>>, <<"ö", <<"%","C","3","%","B","6">>>>,
    <<"Å", <<"%","C","3","%","8","5">>>>, <<"Ä", <<"%","C","3","%","8","4">>>>, <<"Ö", <<"%","C","3","%","9","6">>>> >>

EncodeChar(c) ==
    IF IsAsciiLetter(c) \/ IsDigit(c) \/ c \in {"-", "_", ".", "!", "~", "*", "'", "(", ")"} THEN <<c>>
    ELSE EncodeTable[CHOOSE i \in DOMAIN EncodeTable : EncodeTable[i][1] = c][2]

RECURSIVE encodeURIComponent(_)
encodeURIComponent(s) == IF s = <<>> THEN <<>> ELSE EncodeChar(Head(s)) \o encodeURIComponent(Tail(s))

\* the body of the for loop of mapRecordsToCandidates (AO-API-01) for record r
Candidate_ao01(r, sourceLabel, seed) ==
    LET id == mustString(And(r, Or(Or(Or(Or(Get(r, "id"), Get(r, "identifier")), Get(r, "uri")),
                                      Get(r, "arkivid")), Get(r, "guid"))))
        name == mustString(And(r, Or(Or(Or(Get(r, "name"), Get(r, "title")), Get(r, "label")),
                                     Get(r, "displayName"))))
        by == And(r, Or(Or(Or(Get(r, "birthYear"), Get(r, "birth")), Get(r, "fodelsear")), Get(r, "yearOfBirth")))
        dy == And(r, Or(Or(Or(Get(r, "deathYear"), Get(r, "death")), Get(r, "dodsar")), Get(r, "yearOfDeath")))
        place == mustString(And(r, Or(Or(Or(Get(r, "place"), Get(r, "location")), Get(r, "plats")),
                                      Get(r, "placeName"))))
        url == Or(JStr(mustString(And(r, Or(Or(Or(Get(r, "url"), Get(r, "link")), Get(r, "href")), Get(r, "uri"))))),
                  IF id # <<>> THEN JStr(<<"h","t","t","p","s",":","/","/","d","a","t","a",".","r","i","k","s","a","r","k","i","v","e","t",".","s","e","/">> \o encodeURIComponent(id)) ELSE JStr(<<>>))
        why == (IF sourceLabel # <<>> THEN <<JStr(sourceLabel)>> ELSE <<>>)
               \o (IF place # <<>> THEN <<JStr(<<"P","l","a","t","s",":"," ">> \o place)>> ELSE <<>>)
    IN makeCandidate_ao01(
        [ id |-> Or(JStr(id), JStr(<<"r","a","_">> \o NatToDigits(seed))),
          name |-> Or(JStr(name), JStr(<<"(","n","a","m","n"," ","s","a","k","n","a","s",")">>)),
          birthYear |-> IF IsFinite(Number(by)) THEN Number(by) ELSE Null,
          deathYear |-> IF IsFinite(Number(dy)) THEN Number(dy) ELSE Null,
          place |-> JStr(place),
          source |-> JStr(sourceLabel),
          url |-> url,
          why |-> JArr(why) ])

\* safeArray(payload && payload.records) || safeArray(...) || ...: an array is
\* truthy, so the first operand is the value
Records_ao01(payload) == safeArray(And(payload, Get(payload, "records")))

mapRecordsToCandidates(payload, sourceLabel) ==
    LET records == Records_ao01(payload)
        cands == [i \in 1..Len(records) |-> Candidate_ao01(records[i], sourceLabel, i)]
        kept == SelectSeq(Indices(cands), LAMBDA i : cands[i].id # <<>> /\ cands[i].name # <<>>)
    IN Result(Returned([i \in 1..Len(kept) |-> cands[kept[i]]]), kept)

SourceLabel(p) == IF p = "searchapi" THEN <<"R","i","k","s","a","r","k","i","v","e","t"," ","(","p","r","o","x","y",")">> ELSE <<"R","i","k","s","a","r","k","i","v","e","t"," ","(","d","i","r","e","k","t",")">>

AfterJson_ao01(json, p) ==
    IF Truthy(json) /\ Get(json, "ok")[1] = "bool" /\ ~Get(json, "ok")[2]
    THEN Result(Thrown("Error", IF mustString(Get(json, "error")) # <<>> THEN mustString(Get(json, "error"))
                                ELSE <<"U","P","S","T","R","E","A","M","_","E","R","R","O","R">>), <<>>)
    ELSE mapRecordsToCandidates(json, SourceLabel(p))

\* AO-API-03 FINAL: the body of items.slice(0, limit).map(...) of PersonsProvider
\* (p = "persons") and RecordsProvider (p = "records")
Candidate_final(r, p, seed) ==
    LET years == parseDateRangeFromMetadataDate(MdDate(r))
    IN makeCandidate(
        [ id |-> Or(JStr(pickText(Or(Get(r, "id"), Get(r, "identifier")))), JStr(makeTmpId(seed))),
          name |-> Or(JStr(Caption_v4(r)), JStr(<<"(","n","a","m","n"," ","s","a","k","n","a","s",")">>)),
          birthYear |-> years.birthYear,
          deathYear |-> years.deathYear,
          place |-> IF p = "persons"
                    THEN Or(JStr(pickText(Or(Or(Get(r, "place"), Get(r, "location")), MdPlace(r)))), JStr(<<>>))
                    ELSE Or(JStr(pickText(Or(Get(r, "place"), Get(r, "location")))), JStr(<<>>)),
          source |-> IF p = "persons" THEN JStr(<<"R","i","k","s","a","r","k","i","v","e","t">>) ELSE JStr(<<"R","i","k","s","a","r","k","i","v","e","t"," ","(","r","e","c","o","r","d","s",")">>),
          url |-> Or(JStr(extractUrlFromLinks(And(r, Or(Get(r, "_links"), Get(r, "links"))))), JStr(<<>>)),
          why |-> IF p = "persons" THEN WhyWithDate(<<"P","e","r","s","o","n","-","f","i","l","t","e","r"," ","(","/","p","e","r","s","o","n","s",")">>, MdDate(r))
                  ELSE JArr(<<JStr(<<"M","a","t","c","h"," ","v","i","a"," ","n","a","m","n"," ","(","r","e","c","o","r","d","s",")">>)>>) ])

AfterJson_final(json, p) ==
    LET items == Slice(RawItems_v4(json), Limit("final"))
    IN IF json[1] \in {"null", "undefined"}
       THEN Result(Thrown("TypeError", <<"C","a","n","n","o","t"," ","r","e","a","d"," ","p","r","o","p","e","r","t","i","e","s"," ","o","f"," ","n","u","l","l">>), <<>>)
       ELSE IF Len(RawItems_v4(json)) = 0 THEN Result(Returned(<<>>), <<>>)
       ELSE IF \E i \in 1..Len(items) : items[i][1] \in {"null", "undefined"}
            THEN Result(Thrown("TypeError", <<"C","a","n","n","o","t"," ","r","e","a","d"," ","p","r","o","p","e","r","t","i","e","s"," ","o","f"," ","n","u","l","l">>), <<>>)
       ELSE Result(Returned([i \in 1..Len(items) |-> Candidate_final(items[i], p, i)]),
                   [i \in 1..Len(items) |-> i])

AfterJson(v, p, json) ==
    CASE v = "v41" -> AfterJson_v41(json)
      [] v = "final" -> AfterJson_final(json, p)
      [] v = "v4" -> AfterJson_v4(json)
      [] v = "patch" -> AfterJson_patch(json)
      [] v = "ao01" -> AfterJson_ao01(json, p)

-----------------------------------------------------------------------------
(* Provider registry and pickProvider *)

\* the ids registered at start-up; AO-API-01 registers the proxy provider
\* only when PROXY_BASE is set
Registry(v, ps) ==
    CASE v = "final" -> {"demo", "persons", "records"}
      [] v = "ao01" -> {"demo", "searchapi_direct"} \cup (IF ps THEN {"searchapi"} ELSE {})
      [] OTHER -> {"demo", "searchapi"}

\* the argument that stands for a call without argument
NoArgument == "(no argument)"

\* pickProvider(preferred = "auto") of v2 - v4.1 and PATCH
pickProvider(pref) ==
    IF pref = "demo" THEN "demo"
    ELSE IF pref = "searchapi" THEN "searchapi"
    ELSE "searchapi"

\* pickProvider(preferred = "auto") of FINAL
pickProvider_final(pref) ==
    IF pref = "demo" THEN "demo"
    ELSE IF pref = "persons" THEN "persons"
    ELSE IF pref = "records" THEN "records"
    ELSE "persons"

\* registry.get(String(id)) || null
getProvider(reg, id) == IF id \in reg THEN id ELSE "null"

\* pickProvider({ preferred, allowNetwork }) of AO-API-01
pickProvider_ao01(reg, preferredArg, allowNetworkArg) ==
    LET pref == IF preferredArg \in {NoArgument, ""} THEN "auto" ELSE preferredArg
        allow == ~(allowNetworkArg = "false")
    IN IF pref = "demo" THEN getProvider(reg, "demo")
       ELSE IF pref = "searchapi"
            THEN IF getProvider(reg, "searchapi") # "null" THEN getProvider(reg, "searchapi")
                 ELSE IF allow THEN getProvider(reg, "searchapi_direct")
                 ELSE getProvider(reg, "demo")
       ELSE IF pref = "searchapi_direct"
            THEN IF allow THEN getProvider(reg, "searchapi_direct") ELSE getProvider(reg, "demo")
       ELSE IF getProvider(reg, "searchapi") # "null" THEN getProvider(reg, "searchapi")
       ELSE IF allow THEN getProvider(reg, "searchapi_direct")
       ELSE getProvider(reg, "demo")

PickProviderOf(v, ps, preferredArg, allowNetworkArg) ==
    CASE v = "ao01" -> pickProvider_ao01(Registry(v, ps), preferredArg, allowNetworkArg)
      [] v = "final" -> pickProvider_final(preferredArg)
      [] OTHER -> pickProvider(preferredArg)

-----------------------------------------------------------------------------
(* Inputs: queries, upstream answers *)

\* longest item list the upstream answers with, the ceiling cases aside
MaxItems == 2
\* how far beyond the result ceiling the long item lists go
Overshoot == 1

Queries == <<
    Undefined, Null, JStr(<<>>), JStr(<<"K">>), JStr(<<" ","k"," ">>), JStr(<<"a"," "," ">>), JStr(<<"a","n">>), JStr(<<" ","K","a","r","l"," ">>) >>

\* an Agent/Person hit as the Riksarkivet worker answers it
ItemPerson == JObj(<<
    <<"id", JStr(<<"p","1">>)>>,
    <<"objectType", JStr(<<"A","g","e","n","t">>)>>,
    <<"type", JStr(<<"P","e","r","s","o","n">>)>>,
    <<"caption", JStr(<<"O","d","h","e","l","i","u","s",","," ","E","r","i","c","h">>)>>,
    <<"metadata", JObj(<< <<"date", JStr(<<"1","6","6","1"," ","-"," ","1","7","0","4">>)>> >>)>>,
    <<"_links", JObj(<< <<"html", JObj(<< <<"href", JStr(<<"h","t","t","p","s",":","/","/","s","o","k",".","r","i","k","s","a","r","k","i","v","e","t",".","s","e","/","a","g","e","n","t","/","p","1">>)>> >>)>> >>)>> >>)

\* a drawing of a church, no type field at all
ItemDrawing == JObj(<<
    <<"id", JStr(<<"b","1">>)>>,
    <<"caption", JStr(<<"F","ö","r","s","a","m","l","i","n","g","e","n","s"," ","k","y","r","k","a",","," ","r","i","t","n","i","n","g">>)>> >>)

\* Agent/Person in objectType/type, Building in recordType, a relative link
ItemPersonBuilding == JObj(<<
    <<"objectType", JStr(<<"A","g","e","n","t">>)>>,
    <<"type", JStr(<<"P","e","r","s","o","n">>)>>,
    <<"recordType", JStr(<<"B","u","i","l","d","i","n","g">>)>>,
    <<"caption", JStr(<<"L","i","n","d",","," ","E","r","i","k">>)>>,
    <<"_links", JObj(<< <<"self", JObj(<< <<"href", JStr(<<"/","a","g","e","n","t","/","7">>)>> >>)>> >>)>> >>)

\* a record in the shape AO-API-01 maps, with a relative url
ItemRecord == JObj(<<
    <<"identifier", JStr(<<"r"," ","7">>)>>,
    <<"name", JStr(<<"A","n","n","a"," ","P","e","r","s","d","o","t","t","e","r">>)>>,
    <<"birthYear", JStr(<<"1","8","7","8">>)>>,
    <<"place", JStr(<<"L","e","k","s","a","n","d">>)>>,
    <<"url", JStr(<<"/","r","e","c","o","r","d","s","/","7">>)>> >>)

\* agent and person only in entityType and kind; an ftp link and an upper-case http link
ItemTokens == JObj(<<
    <<"entityType", JStr(<<"a","g","e","n","t">>)>>,
    <<"kind", JStr(<<"p","e","r","s","o","n">>)>>,
    <<"name", JStr(<<"K","a","r","l"," ","J","o","h","a","n","s","s","o","n">>)>>,
    <<"links", JObj(<< <<"doc", JObj(<< <<"href", JStr(<<"f","t","p",":","/","/","r","a",".","s","e","/","k">>)>> >>)>>,
                       <<"web", JArr(<< JObj(<< <<"href", JStr(<<"H","T","T","P",":","/","/","r","a",".","s","e","/","k">>)>> >>) >>)>> >>)>> >>)

\* Agent/Person whose title is an archival series, Series in metadata.type
ItemSeries == JObj(<<
    <<"objectType", JStr(<<"a","g","e","n","t">>)>>,
    <<"type", JArr(<<JStr(<<"P","e","r","s","o","n">>)>>)>>,
    <<"title", JStr(<<"I","n","v","e","n","t","e","r","i","n","g",":"," ","v","o","l","y","m"," ","3">>)>>,
    <<"metadata", JObj(<< <<"type", JStr(<<"S","e","r","i","e","s">>)>> >>)>> >>)

\* a plausible name, no type field, a javascript: url
ItemNoType == JObj(<<
    <<"name", JStr(<<"M","a","r","i","a"," ","N","i","l","s","d","o","t","t","e","r">>)>>,
    <<"url", JStr(<<"j","a","v","a","s","c","r","i","p","t",":","a","l","e","r","t","(","1",")">>)>> >>)

\* an Agent/Person hit whose family name holds the letters of "plan"
ItemPlantin == JObj(<<
    <<"id", JStr(<<"p","9">>)>>,
    <<"objectType", JStr(<<"A","g","e","n","t">>)>>,
    <<"type", JStr(<<"P","e","r","s","o","n">>)>>,
    <<"caption", JStr(<<"P","l","a","n","t","i","n",","," ","O","l","o","f">>)>> >>)

\* an Agent/Person hit known by one name only
ItemMononym == JObj(<<
    <<"id", JStr(<<"p","7">>)>>,
    <<"objectType", JStr(<<"A","g","e","n","t">>)>>,
    <<"type", JStr(<<"P","e","r","s","o","n">>)>>,
    <<"caption", JStr(<<"B","r","i","t","a">>)>> >>)

ItemKinds == << ItemPerson, ItemDrawing, ItemPersonBuilding, ItemRecord, Null, ItemTokens, ItemSeries, ItemNoType, ItemPlantin >>

\* every list of at most n items of ItemKinds
RECURSIVE ItemLists(_)
ItemLists(n) ==
    IF n = 0 THEN {<<>>}
    ELSE ItemLists(n - 1) \cup
         { Append(l, ItemKinds[k]) : l \in { m \in ItemLists(n - 1) : Len(m) = n - 1 }, k \in 1..Len(ItemKinds) }

Repeat(x, n) == [i \in 1..n |-> x]

\* lengths at and beyond the ceiling a revision sends as its limit parameter
LongCounts(max) == { max + k : k \in 0..Overshoot }

\* decoded JSON bodies whose shape is not an item list under a known key
OddPayloads == {
    Null,
    JNum(5),
    JObj(<<>>),
    JObj(<< <<"totalHits", JNum(3)>>, <<"hits", JNum(3)>> >>),
    JObj(<< <<"hits", JArr(<<ItemPerson>>)>> >>),
    JObj(<< <<"items", JStr(<<"a","b","c">>)>>, <<"records", JArr(<<ItemPerson>>)>> >>),
    JObj(<< <<"items", JObj(<< <<"a", ItemPerson>> >>)>> >>),
    JObj(<< <<"data", JArr(<<ItemPerson>>)>> >>),
    JObj(<< <<"results", JArr(<<ItemPerson, ItemRecord>>)>> >>),
    JObj(<< <<"ok", JBool(FALSE)>>, <<"error", JStr(<<"N","A","M","E","_","T","O","O","_","S","H","O","R","T">>)>> >>),
    JObj(<< <<"ok", JBool(FALSE)>>, <<"records", JArr(<<ItemRecord>>)>> >>) }

Payloads ==
    { JObj(<< <<"items", JArr(l)>> >>) : l \in ItemLists(MaxItems) }
    \cup { JObj(<< <<"records", JArr(l)>> >>) : l \in ItemLists(MaxItems) }
    \cup { JObj(<< <<"items", JArr(Repeat(ItemPerson, n))>> >>) : n \in LongCounts(MAX_LIMIT) }
    \cup { JObj(<< <<"items", JArr(<<ItemMononym>> \o Repeat(ItemPerson, n))>> >>) : n \in LongCounts(MAX_LIMIT) }
    \cup { JObj(<< <<"records", JArr(Repeat(ItemRecord, n))>> >>) : n \in LongCounts(MAX_LIMIT_AO01) }
    \cup OddPayloads

\* HTTP statuses the upstream answers with
Statuses == {200, 301, 404, 500, 502}

\* what fetch rejects with: the abort of the timeout, and the TypeError of a
\* network or CORS failure as Chrome, Firefox and Safari word it
Rejections == {
    [name |-> "AbortError", message |-> <<"T","h","e"," ","u","s","e","r"," ","a","b","o","r","t","e","d"," ","a"," ","r","e","q","u","e","s","t",".">>],
    [name |-> "TypeError", message |-> <<"F","a","i","l","e","d"," ","t","o"," ","f","e","t","c","h">>],
    [name |-> "TypeError", message |-> <<"N","e","t","w","o","r","k","E","r","r","o","r"," ","w","h","e","n"," ","a","t","t","e","m","p","t","i","n","g"," ","t","o"," ","f","e","t","c","h"," ","r","e","s","o","u","r","c","e",".">>],
    [name |-> "TypeError", message |-> <<"L","o","a","d"," ","f","a","i","l","e","d">>] }

-----------------------------------------------------------------------------
(* The search call as a state machine *)

NoError == [name |-> "", message |-> <<>>]

\* nothing answered yet
NoResponse == [phase |-> "none", err |-> NoError, status |-> 0, json |-> Undefined]

\* Response.ok
ResOk(status) == status >= 200 /\ status <= 299

\* isAbortError(err) of AO-API-01
isAbortError(err) == err.name = "AbortError"

\* corsOrNetworkError(err) of AO-API-01
corsOrNetworkError(err) ==
    LET lower == toLowerCase(err.message)
    IN includes(lower, <<"f","a","i","l","e","d"," ","t","o"," ","f","e","t","c","h">>) \/ includes(lower, <<"n","e","t","w","o","r","k">>) \/ includes(lower, <<"c","o","r","s">>)

\* the catch block around await abortableFetch(url)
OnFetchRejected(v, err) ==
    IF v = "ao01"
    THEN IF isAbortError(err) THEN Thrown("Error", <<"T","I","M","E","O","U","T">>)
         ELSE IF corsOrNetworkError(err) THEN Thrown("Error", <<"C","O","R","S","_","O","R","_","N","E","T","W","O","R","K">>)
         ELSE Thrown("Error", <<"N","E","T","W","O","R","K","_","U","N","K","N","O","W","N">>)
    ELSE Thrown("Error", <<"N","E","T","W","O","R","K","_","O","R","_","T","I","M","E","O","U","T">>)

\* the throw of if (!res.ok)
OnBadStatus(v, status) ==
    IF v = "ao01" THEN Thrown("Error", <<"H","T","T","P","_">> \o NatToDigits(status))
    ELSE Thrown("Error", <<"U","P","S","T","R","E","A","M","_","H","T","T","P","_">> \o NatToDigits(status))

\* the trimmed query the remote search measures
RemoteQuery(v, queryArg) ==
    IF v = "ao01" THEN mustString(queryArg) ELSE trim(String(Or(queryArg, JStr(<<>>))))

\* the ids of the remote providers of a revision
RemoteIds(v, ps) == Registry(v, ps) \ {"demo"}

\* the list the remote search reads its items from
RawItemsOf(v, json) ==
    CASE v = "v41" -> IF IsArray(RawItems_v41(json)) THEN RawItems_v41(json)[2] ELSE <<>>
      [] v = "ao01" -> Records_ao01(json)
      [] v = "patch" -> <<>>
      [] OTHER -> IF json[1] \in {"null", "undefined"} THEN <<>> ELSE RawItems_v4(json)

Init ==
    /\ DbInit /\ NoFlights
    /\ variant \in Variants
    /\ proxySet \in (IF variant = "ao01" THEN BOOLEAN ELSE {TRUE})
    /\ preferred = NoArgument
    /\ allowNetwork = NoArgument
    /\ provider = "demo"
    /\ query = Undefined
    /\ pc = "idle"
    /\ fetchCalls = 0
    /\ response = NoResponse
    /\ outcome = Pending
    /\ origin = <<>>
    /\ arg = Undefined
    /\ ret = [birthYear |-> Null, deathYear |-> Null]

\* DemoProvider.search(q): no await before the return
DemoProviderSearch(q) ==
    /\ pc = "idle"
    /\ provider' = "demo"
    /\ query' = q
    /\ LET result == DemoSearch(variant, q)
       IN outcome' = result.outcome /\ origin' = result.origin
    /\ pc' = "done"
    /\ UNCHANGED <<backendVars, flightVars>>
    /\ UNCHANGED <<variant, proxySet, preferred, allowNetwork, fetchCalls, response, arg, ret>>

\* the remote search(q) up to its first await: the length gate, then fetch
SearchApiProviderSearch(p, q) ==
    /\ pc = "idle"
    /\ p \in RemoteIds(variant, proxySet)
    /\ provider' = p
    /\ query' = q
    /\ IF Len(RemoteQuery(variant, q)) < MinQueryLen(variant)
       THEN /\ outcome' = Returned(<<>>)
            /\ pc' = "done"
            /\ UNCHANGED fetchCalls
       ELSE /\ fetchCalls' = fetchCalls + 1
            /\ pc' = "awaitFetch"
            /\ UNCHANGED outcome
    /\ UNCHANGED <<backendVars, flightVars>>
    /\ UNCHANGED <<variant, proxySet, preferred, allowNetwork, response, origin, arg, ret>>

\* abortableFetch(url) rejects with err
FetchRejects(err) ==
    /\ pc = "awaitFetch"
    /\ response' = [response EXCEPT !.phase = "rejected", !.err = err]
    /\ outcome' = OnFetchRejected(variant, err)
    /\ pc' = "done"
    /\ UNCHANGED <<backendVars, flightVars>>
    /\ UNCHANGED <<variant, proxySet, preferred, allowNetwork, provider, query, fetchCalls, origin, arg, ret>>

\* abortableFetch(url) resolves with a response of the given status
FetchResolves(status) ==
    /\ pc = "awaitFetch"
    /\ response' = [response EXCEPT !.phase = "status", !.status = status]
    /\ IF ResOk(status)
       THEN pc' = "awaitJson" /\ UNCHANGED outcome
       ELSE pc' = "done" /\ outcome' = OnBadStatus(variant, status)
    /\ UNCHANGED <<backendVars, flightVars>>
    /\ UNCHANGED <<variant, proxySet, preferred, allowNetwork, provider, query, fetchCalls, origin, arg, ret>>

\* res.json() rejects: the body is not JSON
JsonRejects ==
    /\ pc = "awaitJson"
    /\ response' = [response EXCEPT !.phase = "badjson"]
    /\ outcome' = Thrown("Error", <<"B","A","D","_","J","S","O","N">>)
    /\ pc' = "done"
    /\ UNCHANGED <<backendVars, flightVars>>
    /\ UNCHANGED <<variant, proxySet, preferred, allowNetwork, provider, query, fetchCalls, origin, arg, ret>>

\* res.json() resolves with json: the rest of search() runs to its end
JsonResolves(json) ==
    /\ pc = "awaitJson"
    /\ response' = [response EXCEPT !.phase = "json", !.json = json]
    /\ LET result == AfterJson(variant, provider, json)
       IN outcome' = result.outcome /\ origin' = result.origin
    /\ pc' = "done"
    /\ UNCHANGED <<backendVars, flightVars>>
    /\ UNCHANGED <<variant, proxySet, preferred, allowNetwork, provider, query, fetchCalls, arg, ret>>

\* the caller has taken the result; the next call starts afresh
NextCall ==
    /\ pc = "done"
    /\ pc' = "idle"
    /\ provider' = "demo"
    /\ query' = Undefined
    /\ fetchCalls' = 0
    /\ response' = NoResponse
    /\ outcome' = Pending
    /\ origin' = <<>>
    /\ UNCHANGED <<backendVars, flightVars>>
    /\ UNCHANGED <<variant, proxySet, preferred, allowNetwork, arg, ret>>

Next ==
    \/ \E i \in 1..Len(Queries) : DemoProviderSearch(Queries[i])
    \/ \E p \in {"searchapi", "searchapi_direct", "persons", "records"}, i \in 1..Len(Queries) :
            SearchApiProviderSearch(p, Queries[i])
    \/ \E err \in Rejections : FetchRejects(err)
    \/ \E status \in Statuses : FetchResolves(status)
    \/ JsonRejects
    \/ \E json \in Payloads : JsonResolves(json)
    \/ NextCall

Spec == Init /\ [][Next]_vars

-----------------------------------------------------------------------------
(* pickProvider on its own *)

PreferredArgs ==
    { NoArgument, "auto", "demo", "searchapi", "searchapi_direct", "persons", "records",
      "riksarkivet", "proxy", "Demo", "DEMO", "oai", "iiif", "" }
AllowNetworkArgs == {NoArgument, "true", "false"}

\* RAProviders.pickProvider(pref) / pickProvider({ preferred: pref, allowNetwork: allow })
PickProvider(pref, allow) ==
    /\ pc = "idle"
    /\ variant = "ao01" \/ allow = NoArgument
    /\ preferred' = pref
    /\ allowNetwork' = allow
    /\ provider' = PickProviderOf(variant, proxySet, pref, allow)
    /\ pc' = "picked"
    /\ UNCHANGED <<backendVars, flightVars>>
    /\ UNCHANGED <<variant, proxySet, query, fetchCalls, response, outcome, origin, arg, ret>>

PickNext == \E pref \in PreferredArgs, allow \in AllowNetworkArgs : PickProvider(pref, allow)

SpecPick == Init /\ [][PickNext]_vars

-----------------------------------------------------------------------------
(* DemoProvider.search over a range of queries *)

\* longest query made of QueryChars
MaxQueryLen == 3

QueryChars == <<"a", "l", "u", "N", " ", "ö">>

RECURSIVE Words(_, _)
Words(chars, n) ==
    IF n = 0 THEN {<<>>}
    ELSE Words(chars, n - 1) \cup
         { Append(w, chars[k]) : w \in { x \in Words(chars, n - 1) : Len(x) = n - 1 }, k \in 1..Len(chars) }

DemoQueries ==
    { JStr(w) : w \in Words(QueryChars, MaxQueryLen) }
    \cup { JStr(<<"K","a","r","l">>), JStr(<<" "," ","K","A","R","L"," ">>), JStr(<<"k","a","r","l"," ","j">>), JStr(<<"F","a","l","u","n">>), JStr(<<"d","o","t","t","e","r">>),
           JStr(<<"Ö","R","E","B","R","O">>), JStr(<<"g","ä","v","l","e">>), JStr(<<"L","i","n","d",","," ","E","r","i","k">>), JStr(<<"x","y","z">>), Undefined, Null }

DemoInit ==
    /\ DbInit /\ NoFlights
    /\ variant \in Variants
    /\ proxySet \in (IF variant = "ao01" THEN BOOLEAN ELSE {TRUE})
    /\ preferred = NoArgument
    /\ allowNetwork = NoArgument
    /\ provider = "demo"
    /\ query \in DemoQueries
    /\ pc = "idle"
    /\ fetchCalls = 0
    /\ response = NoResponse
    /\ outcome = Pending
    /\ origin = <<>>
    /\ arg = Undefined
    /\ ret = [birthYear |-> Null, deathYear |-> Null]

DemoNext == DemoProviderSearch(query)

SpecDemo == DemoInit /\ [][DemoNext]_vars

-----------------------------------------------------------------------------
(* parseDateRangeFromMetadataDate over a range of date texts *)

\* most pieces a date text is made of
MaxPieces == 3

DatePieces == << <<"1","6","6","1">>, <<"1","7","0","4">>, <<"2","0","2","4">>, <<"0","9","9","9">>, <<"2","1","0","0">>, <<"9">>, <<" ">>, <<" ","-"," ">>, <<"f">>, <<"_">> >>

RECURSIVE Texts(_)
Texts(n) ==
    IF n = 0 THEN {<<>>}
    ELSE Texts(n - 1) \cup { DatePieces[k] \o w : w \in Texts(n - 1), k \in 1..Len(DatePieces) }

DateInputs ==
    { JStr(w) : w \in Texts(MaxPieces) }
    \cup { Undefined, Null, JNum(1704), JNum(17041),
           JStr(<<"f","ö","d","d"," ","1","6","6","1",","," ","d","ö","d"," ","1","7","0","4"," ","(","b","e","g","r","."," ","1","7","0","5",")">>),
           JArr(<<JStr(<<"1","6","6","1">>), JStr(<<"1","7","0","4">>)>>),
           JObj(<< <<"value", JStr(<<"1","6","6","1"," ","-"," ","1","7","0","4">>)>> >>) }

DateInit ==
    /\ DbInit /\ NoFlights
    /\ variant = "v41"
    /\ proxySet = TRUE
    /\ preferred = NoArgument
    /\ allowNetwork = NoArgument
    /\ provider = "demo"
    /\ query = Undefined
    /\ pc = "idle"
    /\ fetchCalls = 0
    /\ response = NoResponse
    /\ outcome = Pending
    /\ origin = <<>>
    /\ arg \in DateInputs
    /\ ret = [birthYear |-> Null, deathYear |-> Null]

ParseDate ==
    /\ pc = "idle"
    /\ ret' = parseDateRangeFromMetadataDate(arg)
    /\ pc' = "done"
    /\ UNCHANGED <<backendVars, flightVars>>
    /\ UNCHANGED <<variant, proxySet, preferred, allowNetwork, provider, query, fetchCalls, response,
                   outcome, origin, arg>>

SpecDate == DateInit /\ [][ParseDate]_vars

-----------------------------------------------------------------------------
(* makeCandidate over a range of why lists *)

MaxWhy == 3

\* entries a caller can put in o.why
WhyEntries == << JStr(<<"D","e","m","o","-","p","o","s","t">>), JStr(<<"M","a","t","c","h"," ","v","i","a"," ","n","a","m","n">>), JStr(<<"D","a","t","u","m",":"," ","1","7","0","4">>), JStr(<<>>), Null, JNum(1704) >>

RECURSIVE WhyLists(_)
WhyLists(n) ==
    IF n = 0 THEN {<<>>}
    ELSE WhyLists(n - 1) \cup { <<WhyEntries[k]>> \o w : w \in WhyLists(n - 1), k \in 1..Len(WhyEntries) }

\* o.why: a list, or no list at all
WhyInputs == { JArr(w) : w \in WhyLists(MaxWhy) } \cup { Undefined, Null, JStr(<<"D","e","m","o","-","p","o","s","t">>) }

\* the object a provider hands to makeCandidate, with o.why = why
CandidateInput(why) ==
    [ id |-> JStr(<<"d","1">>), name |-> JStr(<<"K","a","r","l"," ","J","o","h","a","n","s","s","o","n">>), birthYear |-> JNum(1872),
      deathYear |-> JNum(1939), place |-> JStr(<<"F","a","l","u","n">>), source |-> JStr(<<"D","e","m","o">>),
      url |-> JStr(<<>>), why |-> why ]

CandidateInit ==
    /\ DbInit /\ NoFlights
    /\ variant \in Variants
    /\ proxySet = TRUE
    /\ preferred = NoArgument
    /\ allowNetwork = NoArgument
    /\ provider = "demo"
    /\ query = Undefined
    /\ pc = "idle"
    /\ fetchCalls = 0
    /\ response = NoResponse
    /\ outcome = Pending
    /\ origin = <<>>
    /\ arg \in WhyInputs
    /\ ret = [birthYear |-> Null, deathYear |-> Null]

\* makeCandidate(o) of the revision
MakeCandidate ==
    /\ pc = "idle"
    /\ ret' = IF variant = "ao01" THEN makeCandidate_ao01(CandidateInput(arg))
              ELSE makeCandidate(CandidateInput(arg))
    /\ pc' = "done"
    /\ UNCHANGED <<backendVars, flightVars>>
    /\ UNCHANGED <<variant, proxySet, preferred, allowNetwork, provider, query, fetchCalls, response,
                   outcome, origin, arg>>

SpecCandidate == CandidateInit /\ [][MakeCandidate]_vars

-----------------------------------------------------------------------------
(* Enrichment providers: EnrichIIIF and EnrichOAI of src/unnamed/part_002   *)
(* (variant "ao03"), and the stubs iiif_stub and oai_stub of the AO-API-03  *)
(* revisions (variant "v41").  One enrich(candidate) call: `arg' is the     *)
(* candidate, `provider' the enrichment provider, `fetchCalls' the number   *)
(* of probes issued and `outcome.list' the bits returned.                   *)

EnrichVariants == {"v41", "ao03"}

EnrichIds(v) == IF v = "ao03" THEN {"enrich-iiif-01", "enrich-oai-01"} ELSE {"iiif_stub", "oai_stub"}

\* clamp01 on a confidence written in hundredths (0.8 is 80)
clamp01(x) == IF x < 0 THEN 0 ELSE IF x > 100 THEN 100 ELSE x

\* makeBit(providerId, type, title, confidence, url, fields); String(type || "note")
makeBit(providerId, type, title, confidence, url, fields) ==
    [ providerId |-> String(Or(providerId, JStr(<<>>))),
      type |-> String(Or(type, JStr(<<"n","o","t","e">>))),
      title |-> String(Or(title, JStr(<<>>))),
      confidence |-> clamp01(confidence),
      url |-> String(Or(url, JStr(<<>>))),
      fields |-> IF Truthy(fields) /\ IsObjectType(fields) THEN fields ELSE JObj(<<>>) ]

\* String(candidate && candidate.url ? candidate.url : "")
CandidateUrl(candidate) ==
    IF Truthy(And(candidate, Get(candidate, "url"))) THEN String(Get(candidate, "url")) ELSE <<>>

\* String(candidate && candidate.id ? candidate.id : "")
CandidateId(candidate) ==
    IF Truthy(And(candidate, Get(candidate, "id"))) THEN String(Get(candidate, "id")) ELSE <<>>

\* /iiif/i.test(cUrl) || /manifest/i.test(cUrl)
looksIiif(cUrl) == includes(toLowerCase(cUrl), <<"i","i","i","f">>) \/ includes(toLowerCase(cUrl), <<"m","a","n","i","f","e","s","t">>)

\* the bit EnrichIIIF makes of a candidate url that looks like IIIF
IiifLinkBit(cUrl, cId) ==
    makeBit(JStr(<<"e","n","r","i","c","h","-","i","i","i","f","-","0","1">>), JStr(<<"i","i","i","f">>), JStr(<<"I","I","I","F"," ","(","m","a","n","i","f","e","s","t","-","l","ä","n","k",")">>), 80, JStr(cUrl),
            JObj(<< <<"note", JStr(<<"L","ä","n","k"," ","f","r","å","n"," ","k","a","n","d","i","d","a","t"," ","(","h","e","u","r","i","s","t","i","k",")",".">>)>>, <<"recordId", JStr(cId)>> >>))

\* json && (json.manifest || json.url || json.iiifManifest)
IiifManifest(json) ==
    And(json, Or(Or(Get(json, "manifest"), Get(json, "url")), Get(json, "iiifManifest")))

\* the bit EnrichIIIF makes of the manifest the proxy answered
IiifProbeBit(manifest, cId) ==
    makeBit(JStr(<<"e","n","r","i","c","h","-","i","i","i","f","-","0","1">>), JStr(<<"i","i","i","f">>), JStr(<<"I","I","I","F"," ","(","m","a","n","i","f","e","s","t","-","l","ä","n","k",")">>), 75, JStr(String(manifest)),
            JObj(<< <<"note", JStr(<<"H","ä","m","t","a","d"," ","v","i","a"," ","p","r","o","x","y",".">>)>>, <<"recordId", JStr(cId)>> >>))

\* bits of EnrichOAI before the probe: the source link when candidate.url is set
OaiLinkBits(candidate) ==
    LET cUrl == CandidateUrl(candidate)
        cId == CandidateId(candidate)
    IN IF cUrl # <<>>
       THEN << makeBit(JStr(<<"e","n","r","i","c","h","-","o","a","i","-","0","1">>), JStr(<<"l","i","n","k">>), JStr(<<"K","ä","l","l","p","o","s","t"," ","(","l","ä","n","k",")">>), 55, JStr(cUrl),
                       JObj(<< <<"note", JStr(<<"G","r","u","n","d","l","ä","n","k"," ","f","r","å","n"," ","k","a","n","d","i","d","a","t",".">>)>>, <<"recordId", JStr(cId)>> >>)) >>
       ELSE <<>>

\* json && (json.url || json.oaiUrl)
OaiUrl(json) == And(json, Or(Get(json, "url"), Get(json, "oaiUrl")))

\* json && (json.identifier || json.oaiIdentifier)
OaiIdent(json) == And(json, Or(Get(json, "identifier"), Get(json, "oaiIdentifier")))

\* the bit EnrichOAI makes of the GetRecord link the proxy answered
OaiProbeBit(json, cId) ==
    makeBit(JStr(<<"e","n","r","i","c","h","-","o","a","i","-","0","1">>), JStr(<<"o","a","i">>), JStr(<<"O","A","I","-","P","M","H"," ","(","G","e","t","R","e","c","o","r","d","-","l","ä","n","k",")">>), 70, JStr(String(OaiUrl(json))),
            JObj(<< <<"oaiIdentifier", JStr(IF Truthy(OaiIdent(json)) THEN String(OaiIdent(json)) ELSE <<>>)>>,
                    <<"recordId", JStr(cId)>>, <<"note", JStr(<<"H","ä","m","t","a","d"," ","v","i","a"," ","p","r","o","x","y",".">>)>> >>))

\* the bit of iiif_stub (the dash of its title is written "-" here)
IiifStubBit(u) ==
    [ providerId |-> <<"i","i","i","f","_","s","t","u","b">>, type |-> <<"i","i","i","f">>, title |-> <<"I","I","I","F"," ","(","s","t","u","b",")"," ","-"," ","m","e","t","a","d","a","t","a","/","l","ä","n","k">>,
      confidence |-> 35, url |-> u, fields |-> JObj(<< <<"note", JStr(<<"s","t","u","b">>)>> >>) ]

\* what EnrichIIIF.enrich and EnrichOAI.enrich return once the probe has
\* answered json (null when the body did not parse)
AfterProbeJson(p, candidate, json) ==
    IF p = "enrich-iiif-01"
    THEN IF ~Truthy(IiifManifest(json)) THEN <<>>
         ELSE <<IiifProbeBit(IiifManifest(json), CandidateId(candidate))>>
    ELSE IF Truthy(OaiUrl(json))
         THEN OaiLinkBits(candidate) \o <<OaiProbeBit(json, CandidateId(candidate))>>
         ELSE OaiLinkBits(candidate)

\* what the call returns when the probe fails: EnrichIIIF's catch returns [],
\* EnrichOAI's catch and both `if (!res.ok) return bits' return bits
AfterProbeRejected(p, candidate) == IF p = "enrich-iiif-01" THEN <<>> ELSE OaiLinkBits(candidate)

AfterProbeBadStatus(p, candidate) == IF p = "enrich-iiif-01" THEN <<>> ELSE OaiLinkBits(candidate)

\* urls and ids a candidate can carry
CandidateUrls == << JStr(<<"h","t","t","p","s",":","/","/","r","a",".","s","e","/","a","g","e","n","t","/","p","1">>), JStr(<<"/","i","i","i","f","/","7">>), JStr(<<>>),
                    JStr(<<"h","t","t","p","s",":","/","/","r","a",".","s","e","/","i","i","i","f","/","7","/","m","a","n","i","f","e","s","t">>), JStr(<<"f","t","p",":","/","/","r","a",".","s","e","/","k">>), Null >>

CandidateIds == { JStr(<<"p","1">>), JStr(<<>>), Undefined, JNum(7) }

Candidates ==
    { JObj(<< <<"id", i>>, <<"name", JStr(<<"E","r","i","k"," ","L","i","n","d">>)>>, <<"url", CandidateUrls[u]>> >>) :
        i \in CandidateIds, u \in 1..Len(CandidateUrls) }
    \cup { JObj(<< <<"name", JStr(<<"E","r","i","k"," ","L","i","n","d">>)>> >>), JObj(<<>>), Null, Undefined }

\* bodies the proxy answers to a probe
ProbePayloads == {
    Null,
    JObj(<<>>),
    JStr(<<"o","k">>),
    JArr(<<>>),
    JObj(<< <<"manifest", JStr(<<"h","t","t","p","s",":","/","/","r","a",".","s","e","/","i","i","i","f","/","7","/","m","a","n","i","f","e","s","t">>)>> >>),
    JObj(<< <<"manifest", JStr(<<>>)>> >>),
    JObj(<< <<"url", JStr(<<"h","t","t","p","s",":","/","/","r","a",".","s","e","/","o","a","i","?","v","e","r","b","=","G","e","t","R","e","c","o","r","d">>)>>, <<"identifier", JStr(<<"o","a","i",":","r","a",".","s","e",":","7">>)>> >>),
    JObj(<< <<"oaiUrl", JStr(<<"h","t","t","p","s",":","/","/","r","a",".","s","e","/","o","a","i","?","v","e","r","b","=","G","e","t","R","e","c","o","r","d">>)>> >>),
    JObj(<< <<"iiifManifest", JNum(7)>> >>),
    JObj(<< <<"error", JStr(<<"N","O","T","_","F","O","U","N","D">>)>> >>) }

EnrichInit ==
    /\ DbInit /\ NoFlights
    /\ variant \in EnrichVariants
    /\ proxySet = TRUE
    /\ preferred = NoArgument
    /\ allowNetwork = NoArgument
    /\ provider = "demo"
    /\ query = Undefined
    /\ pc = "idle"
    /\ fetchCalls = 0
    /\ response = NoResponse
    /\ outcome = Pending
    /\ origin = <<>>
    /\ arg = Undefined
    /\ ret = [birthYear |-> Null, deathYear |-> Null]

\* EnrichIIIF.enrich(candidate) up to its first return or await
IiifEnrich(candidate) ==
    /\ pc = "idle" /\ variant = "ao03"
    /\ provider' = "enrich-iiif-01"
    /\ arg' = candidate
    /\ LET cUrl == CandidateUrl(candidate)
           cId == CandidateId(candidate)
       IN IF cUrl # <<>> /\ looksIiif(cUrl)
          THEN pc' = "done" /\ outcome' = Returned(<<IiifLinkBit(cUrl, cId)>>) /\ UNCHANGED fetchCalls
          ELSE IF cId = <<>>
               THEN pc' = "done" /\ outcome' = Returned(<<>>) /\ UNCHANGED fetchCalls
          ELSE pc' = "awaitFetch" /\ fetchCalls' = fetchCalls + 1 /\ UNCHANGED outcome
    /\ UNCHANGED <<backendVars, flightVars>>
    /\ UNCHANGED <<variant, proxySet, preferred, allowNetwork, query, response, origin, ret>>

\* EnrichOAI.enrich(candidate) up to its first return or await
OaiEnrich(candidate) ==
    /\ pc = "idle" /\ variant = "ao03"
    /\ provider' = "enrich-oai-01"
    /\ arg' = candidate
    /\ IF CandidateId(candidate) = <<>>
       THEN pc' = "done" /\ outcome' = Returned(OaiLinkBits(candidate)) /\ UNCHANGED fetchCalls
       ELSE pc' = "awaitFetch" /\ fetchCalls' = fetchCalls + 1 /\ UNCHANGED outcome
    /\ UNCHANGED <<backendVars, flightVars>>
    /\ UNCHANGED <<variant, proxySet, preferred, allowNetwork, query, response, origin, ret>>

\* iiif_stub.enrich(candidate): candidate.url of null or undefined throws
\* inside the try, and the catch returns []
IiifStubEnrich(candidate) ==
    /\ pc = "idle" /\ variant = "v41"
    /\ provider' = "iiif_stub"
    /\ arg' = candidate
    /\ outcome' = IF candidate[1] \in {"null", "undefined"} THEN Returned(<<>>)
                  ELSE IF safeUrl(Get(candidate, "url")) = <<>> THEN Returned(<<>>)
                  ELSE Returned(<<IiifStubBit(safeUrl(Get(candidate, "url")))>>)
    /\ pc' = "done"
    /\ UNCHANGED <<backendVars, flightVars>>
    /\ UNCHANGED <<variant, proxySet, preferred, allowNetwork, query, fetchCalls, response, origin, ret>>

\* oai_stub.enrich(): return []
OaiStubEnrich(candidate) ==
    /\ pc = "idle" /\ variant = "v41"
    /\ provider' = "oai_stub"
    /\ arg' = candidate
    /\ outcome' = Returned(<<>>)
    /\ pc' = "done"
    /\ UNCHANGED <<backendVars, flightVars>>
    /\ UNCHANGED <<variant, proxySet, preferred, allowNetwork, query, fetchCalls, response, origin, ret>>

\* await abortableFetch(probeUrl) rejects (network failure or the abort of
\* the timeout): the catch block returns
ProbeRejects(err) ==
    /\ pc = "awaitFetch"
    /\ response' = [response EXCEPT !.phase = "rejected", !.err = err]
    /\ outcome' = Returned(AfterProbeRejected(provider, arg))
    /\ pc' = "done"
    /\ UNCHANGED <<backendVars, flightVars>>
    /\ UNCHANGED <<variant, proxySet, preferred, allowNetwork, provider, query, fetchCalls, origin, arg, ret>>

\* await abortableFetch(probeUrl) resolves; if (!res.ok) return bits
ProbeResolves(status) ==
    /\ pc = "awaitFetch"
    /\ response' = [response EXCEPT !.phase = "status", !.status = status]
    /\ IF ResOk(status)
       THEN pc' = "awaitJson" /\ UNCHANGED outcome
       ELSE pc' = "done" /\ outcome' = Returned(AfterProbeBadStatus(provider, arg))
    /\ UNCHANGED <<backendVars, flightVars>>
    /\ UNCHANGED <<variant, proxySet, preferred, allowNetwork, provider, query, fetchCalls, origin, arg, ret>>

\* res.json() rejects: .catch(() => null) makes json null
ProbeJsonRejects ==
    /\ pc = "awaitJson"
    /\ response' = [response EXCEPT !.phase = "badjson", !.json = Null]
    /\ outcome' = Returned(AfterProbeJson(provider, arg, Null))
    /\ pc' = "done"
    /\ UNCHANGED <<backendVars, flightVars>>
    /\ UNCHANGED <<variant, proxySet, preferred, allowNetwork, provider, query, fetchCalls, origin, arg, ret>>

\* res.json() resolves with json
ProbeJsonResolves(json) ==
    /\ pc = "awaitJson"
    /\ response' = [response EXCEPT !.phase = "json", !.json = json]
    /\ outcome' = Returned(AfterProbeJson(provider, arg, json))
    /\ pc' = "done"
    /\ UNCHANGED <<backendVars, flightVars>>
    /\ UNCHANGED <<variant, proxySet, preferred, allowNetwork, provider, query, fetchCalls, origin, arg, ret>>

EnrichNext ==
    \/ \E c \in Candidates : IiifEnrich(c)
    \/ \E c \in Candidates : OaiEnrich(c)
    \/ \E c \in Candidates : IiifStubEnrich(c)
    \/ \E c \in Candidates : OaiStubEnrich(c)
    \/ \E err \in Rejections : ProbeRejects(err)
    \/ \E status \in Statuses : ProbeResolves(status)
    \/ ProbeJsonRejects
    \/ \E json \in ProbePayloads : ProbeJsonResolves(json)

SpecEnrich == EnrichInit /\ [][EnrichNext]_vars


-----------------------------------------------------------------------------
(* Backend: server/src/index.js as listed in src/README.md                  *)
(*                                                                          *)
(* Every route below runs without an await (better-sqlite3 is synchronous), *)
(* so a request is one step.  /auth/register awaits bcrypt.hash between its *)
(* SELECT and its INSERT; the step is not split, because a registration of  *)
(* the same email that slips in between is stopped by UNIQUE(email) and the *)
(* table takes the same values.  /auth/login, /auth/logout, /me and /health *)
(* write no table; the cookie that register and login hand out is           *)
(* signToken of a row of users.                                             *)

ToUpperChar(c) ==
    IF \E i \in 1..26 : LowerChars[i] = c
    THEN UpperChars[CHOOSE i \in 1..26 : LowerChars[i] = c]
    ELSE c

toUpperCase(s) == [i \in 1..Len(s) |-> ToUpperChar(s[i])]

Reply(status, error) == [status |-> status, error |-> error]

\* a middleware called next()
Passed == Reply(0, "next")

normalizeEmail(email) == toLowerCase(trim(String(Or(email, JStr(<<>>)))))

\* /^[^\s@]+@[^\s@]+\.[^\s@]+$/
isEmailLike(email) ==
    /\ \A i \in 1..Len(email) : ~IsSpace(email[i])
    /\ Cardinality({ i \in 1..Len(email) : email[i] = "@" }) = 1
    /\ LET at == CHOOSE i \in 1..Len(email) : email[i] = "@"
       IN /\ at > 1
          /\ \E dot \in (at + 2)..(Len(email) - 1) : email[dot] = "."

\* the payload jwt.verify gives back for a cookie made by signToken; the
\* claims email and displayName are read by /me only
signToken(userId) == JObj(<< <<"sub", JStr(NatToDigits(userId))>> >>)

\* a cookie is absent, or a text that jwt.verify rejects, or a signed payload
NoCookie == Undefined

ForgedCookie == JStr(<<"x",".","y",".","z">>)

\* null is written 0: the callers test the result with ! and ===
asInt(value) ==
    LET n == Number(value)
    IN IF n[1] = "num" /\ n[2] > 0 THEN n[2] ELSE 0

\* variation: every role ranks as OWNER
roleRank_Mutant(role) == 3

roleRank(role) ==
    IF role = <<"O","W","N","E","R">> THEN 3
    ELSE IF role = <<"E","D","I","T","O","R">> THEN 2
    ELSE IF role = <<"V","I","E","W","E","R">> THEN 1
    ELSE 0

authGuard(request) ==
    IF ~Truthy(request.cookie) THEN Reply(401, "NOT_AUTHENTICATED")
    ELSE IF request.cookie[1] # "obj" THEN Reply(401, "INVALID_TOKEN")
    ELSE Passed

\* req.user?.sub after authGuard
getUserId(request) == asInt(Get(request.cookie, "sub"))

\* the rows SELECT ... FROM tree_members WHERE treeId = ? AND userId = ? finds
getMembership(treeId, userId) ==
    { m \in tree_members : m.treeId = treeId /\ m.userId = userId }

MembershipRole(treeId, userId) == (CHOOSE m \in getMembership(treeId, userId) : TRUE).role

requireTreeRole(minRole, request) ==
    LET treeId == asInt(request.treeId)
        userId == getUserId(request)
    IN IF treeId = 0 THEN Reply(400, "INVALID_TREE_ID")
       ELSE IF userId = 0 THEN Reply(401, "NOT_AUTHENTICATED")
       ELSE IF getMembership(treeId, userId) = {} THEN Reply(403, "NOT_A_MEMBER")
       ELSE IF roleRank(MembershipRole(treeId, userId)) < roleRank(minRole)
            THEN Reply(403, "INSUFFICIENT_ROLE")
       ELSE Passed

\* app.<method>(path, authGuard, requireTreeRole(minRole), handler)
TreeGuards(minRole, request) ==
    IF authGuard(request) # Passed THEN authGuard(request)
    ELSE requireTreeRole(minRole, request)

Request(route, cookie, treeId, id, body) ==
    [route |-> route, cookie |-> cookie, treeId |-> treeId, id |-> id, body |-> body]

\* req.body?.key
Body(request, key) ==
    IF request.body[1] \in {"undefined", "null"} THEN Undefined ELSE Get(request.body, key)

\* POST /auth/register
Register(body) ==
    LET request == Request("POST /auth/register", NoCookie, Undefined, Undefined, body)
        email == normalizeEmail(Body(request, "email"))
        password == String(Or(Body(request, "password"), JStr(<<>>)))
        displayName == trim(String(Or(Body(request, "displayName"), JStr(<<>>))))
        reply ==
            IF email = <<>> \/ password = <<>> \/ displayName = <<>> THEN Reply(400, "MISSING_FIELDS")
            ELSE IF ~isEmailLike(email) THEN Reply(400, "INVALID_EMAIL")
            ELSE IF Len(password) < 8 THEN Reply(400, "WEAK_PASSWORD")
            ELSE IF Len(displayName) < 2 \/ Len(displayName) > 60 THEN Reply(400, "INVALID_DISPLAYNAME")
            ELSE IF \E i \in 1..Len(users) : users[i] = email THEN Reply(409, "EMAIL_ALREADY_EXISTS")
            ELSE Reply(201, "")
    IN /\ req' = request
       /\ res' = reply
       /\ users' = IF reply.status = 201 THEN Append(users, email) ELSE users
       /\ UNCHANGED <<trees, tree_members, slaktkort, relationer, sqlite_sequence>>
       /\ UNCHANGED <<clientVars, flightVars>>

\* GET /trees
GetTrees(cookie) ==
    LET request == Request("GET /trees", cookie, Undefined, Undefined, Undefined)
        guard == authGuard(request)
        reply ==
            IF guard # Passed THEN guard
            ELSE IF getUserId(request) = 0 THEN Reply(401, "NOT_AUTHENTICATED")
            ELSE Reply(200, "")
    IN /\ req' = request
       /\ res' = reply
       /\ UNCHANGED <<users, trees, tree_members, slaktkort, relationer, sqlite_sequence>>
       /\ UNCHANGED <<clientVars, flightVars>>

\* POST /trees: the tree and its OWNER row are written in one transaction
PostTrees(cookie, body) ==
    LET request == Request("POST /trees", cookie, Undefined, Undefined, body)
        userId == getUserId(request)
        name == trim(String(Or(Body(request, "name"), JStr(<<>>))))
        guard == authGuard(request)
        reply ==
            IF guard # Passed THEN guard
            ELSE IF userId = 0 THEN Reply(401, "NOT_AUTHENTICATED")
            ELSE IF name = <<>> \/ Len(name) < 2 \/ Len(name) > 80 THEN Reply(400, "INVALID_TREE_NAME")
            ELSE Reply(201, "")
        treeId == Cardinality(trees) + 1
    IN /\ req' = request
       /\ res' = reply
       /\ IF reply.status = 201
          THEN /\ trees' = trees \cup {treeId}
               /\ tree_members' = tree_members \cup {[treeId |-> treeId, userId |-> userId, role |-> <<"O","W","N","E","R">>]}
          ELSE UNCHANGED <<trees, tree_members>>
       /\ UNCHANGED <<users, slaktkort, relationer, sqlite_sequence>>
       /\ UNCHANGED <<clientVars, flightVars>>

\* GET /trees/:treeId/members
GetMembers(cookie, treeIdParam) ==
    LET request == Request("GET /trees/:treeId/members", cookie, treeIdParam, Undefined, Undefined)
        guard == TreeGuards(<<"O","W","N","E","R">>, request)
        reply ==
            IF guard # Passed THEN guard
            ELSE Reply(200, "")
    IN /\ req' = request
       /\ res' = reply
       /\ UNCHANGED <<users, trees, tree_members, slaktkort, relationer, sqlite_sequence>>
       /\ UNCHANGED <<clientVars, flightVars>>

RoleNames == <<<<"O","W","N","E","R">>, <<"E","D","I","T","O","R">>, <<"V","I","E","W","E","R">>>>

\* the id of the row of users with this email, 0 when there is none
UserIdByEmail(email) ==
    IF \E i \in 1..Len(users) : users[i] = email
    THEN CHOOSE i \in 1..Len(users) : users[i] = email
    ELSE 0

\* POST /trees/:treeId/members
PostMembers(cookie, treeIdParam, body) ==
    LET request == Request("POST /trees/:treeId/members", cookie, treeIdParam, Undefined, body)
        treeId == asInt(treeIdParam)
        email == normalizeEmail(Body(request, "email"))
        role == toUpperCase(trim(String(Or(Body(request, "role"), JStr(<<>>)))))
        userId == UserIdByEmail(email)
        guard == TreeGuards(<<"O","W","N","E","R">>, request)
        reply ==
            IF guard # Passed THEN guard
            ELSE IF email = <<>> \/ ~isEmailLike(email) THEN Reply(400, "INVALID_EMAIL")
            ELSE IF role \notin Range(RoleNames) THEN Reply(400, "INVALID_ROLE")
            ELSE IF userId = 0 THEN Reply(404, "USER_NOT_FOUND")
            ELSE IF getMembership(treeId, userId) # {} THEN Reply(409, "ALREADY_MEMBER")
            ELSE Reply(201, "")
    IN /\ req' = request
       /\ res' = reply
       /\ tree_members' =
            IF reply.status = 201
            THEN tree_members \cup {[treeId |-> treeId, userId |-> userId, role |-> role]}
            ELSE tree_members
       /\ UNCHANGED <<users, trees, slaktkort, relationer, sqlite_sequence>>
       /\ UNCHANGED <<clientVars, flightVars>>

\* GET /trees/:treeId/slaktkort
GetSlaktkort(cookie, treeIdParam) ==
    LET request == Request("GET /trees/:treeId/slaktkort", cookie, treeIdParam, Undefined, Undefined)
        guard == TreeGuards(<<"V","I","E","W","E","R">>, request)
        reply ==
            IF guard # Passed THEN guard
            ELSE Reply(200, "")
    IN /\ req' = request
       /\ res' = reply
       /\ UNCHANGED <<users, trees, tree_members, slaktkort, relationer, sqlite_sequence>>
       /\ UNCHANGED <<clientVars, flightVars>>

KonNames == <<<<"M","a","n">>, <<"K","v","i","n","n","a">>, <<"O","k","ä","n","t">>>>

\* fodelsear and dodsar as the handler reads them
BodyYear(request, key) ==
    IF Body(request, key)[1] \in {"null", "undefined"} THEN Null ELSE Number(Body(request, key))

\* "__INVALID__" is written FALSE, a year or null TRUE
yearOrNull(n) ==
    IF n[1] \in {"null", "undefined", "nan"} THEN TRUE
    ELSE n[1] = "num" /\ n[2] >= 0 /\ n[2] <= 9999

\* POST /trees/:treeId/slaktkort; the columns other than id and treeId are
\* read by no route's conditions
PostSlaktkort(cookie, treeIdParam, body) ==
    LET request == Request("POST /trees/:treeId/slaktkort", cookie, treeIdParam, Undefined, body)
        treeId == asInt(treeIdParam)
        fornamn == trim(String(Or(Body(request, "fornamn"), JStr(<<>>))))
        efternamn == trim(String(Or(Body(request, "efternamn"), JStr(<<>>))))
        kon == trim(String(Or(Body(request, "kon"), JStr(<<"O","k","ä","n","t">>))))
        guard == TreeGuards(<<"E","D","I","T","O","R">>, request)
        reply ==
            IF guard # Passed THEN guard
            ELSE IF fornamn = <<>> \/ efternamn = <<>> THEN Reply(400, "MISSING_NAME")
            ELSE IF kon \notin Range(KonNames) THEN Reply(400, "INVALID_KON")
            ELSE IF ~yearOrNull(BodyYear(request, "fodelsear")) \/ ~yearOrNull(BodyYear(request, "dodsar"))
                 THEN Reply(400, "INVALID_YEAR")
            ELSE Reply(201, "")
        id == sqlite_sequence.slaktkort + 1
    IN /\ req' = request
       /\ res' = reply
       /\ IF reply.status = 201
          THEN /\ slaktkort' = slaktkort \cup {[id |-> id, treeId |-> treeId]}
               /\ sqlite_sequence' = [sqlite_sequence EXCEPT !.slaktkort = id]
          ELSE UNCHANGED <<slaktkort, sqlite_sequence>>
       /\ UNCHANGED <<users, trees, tree_members, relationer>>
       /\ UNCHANGED <<clientVars, flightVars>>

\* DELETE /trees/:treeId/slaktkort/:id; FOREIGN KEY ... ON DELETE CASCADE
\* takes the relations of the person along
DeleteSlaktkort(cookie, treeIdParam, idParam) ==
    LET request == Request("DELETE /trees/:treeId/slaktkort/:id", cookie, treeIdParam, idParam, Undefined)
        treeId == asInt(treeIdParam)
        id == asInt(idParam)
        guard == TreeGuards(<<"E","D","I","T","O","R">>, request)
        reply ==
            IF guard # Passed THEN guard
            ELSE IF id = 0 THEN Reply(400, "INVALID_ID")
            ELSE IF [id |-> id, treeId |-> treeId] \notin slaktkort THEN Reply(404, "NOT_FOUND")
            ELSE Reply(200, "")
    IN /\ req' = request
       /\ res' = reply
       /\ IF reply.status = 200
          THEN /\ slaktkort' = slaktkort \ {[id |-> id, treeId |-> treeId]}
               /\ relationer' = { r \in relationer : r.franPersonId # id /\ r.tillPersonId # id }
          ELSE UNCHANGED <<slaktkort, relationer>>
       /\ UNCHANGED <<users, trees, tree_members, sqlite_sequence>>
       /\ UNCHANGED <<clientVars, flightVars>>

\* GET /trees/:treeId/relationer
GetRelationer(cookie, treeIdParam) ==
    LET request == Request("GET /trees/:treeId/relationer", cookie, treeIdParam, Undefined, Undefined)
        guard == TreeGuards(<<"V","I","E","W","E","R">>, request)
        reply ==
            IF guard # Passed THEN guard
            ELSE Reply(200, "")
    IN /\ req' = request
       /\ res' = reply
       /\ UNCHANGED <<users, trees, tree_members, slaktkort, relationer, sqlite_sequence>>
       /\ UNCHANGED <<clientVars, flightVars>>

\* variation: the number of parents is not counted
\* variation: SELECT id FROM slaktkort WHERE id = ?
PersonInTree_Mutant(id, treeId) == \E row \in slaktkort : row.id = id

\* SELECT id FROM slaktkort WHERE id = ? AND treeId = ?
PersonInTree(id, treeId) == [id |-> id, treeId |-> treeId] \in slaktkort

parentCount_Mutant(treeId, tillPersonId) == 0

\* SELECT COUNT(1) FROM relationer WHERE treeId = ? AND typ = 'FORALDER_BARN' AND tillPersonId = ?
parentCount(treeId, tillPersonId) ==
    Cardinality({ r \in relationer : r.treeId = treeId /\ r.tillPersonId = tillPersonId })

\* POST /trees/:treeId/relationer; every stored row has typ FORALDER_BARN
PostRelationer(cookie, treeIdParam, body) ==
    LET request == Request("POST /trees/:treeId/relationer", cookie, treeIdParam, Undefined, body)
        treeId == asInt(treeIdParam)
        typ == trim(String(Or(Body(request, "typ"), JStr(<<>>))))
        franPersonId == asInt(Body(request, "franPersonId"))
        tillPersonId == asInt(Body(request, "tillPersonId"))
        guard == TreeGuards(<<"E","D","I","T","O","R">>, request)
        reply ==
            IF guard # Passed THEN guard
            ELSE IF typ # <<"F","O","R","A","L","D","E","R","_","B","A","R","N">> THEN Reply(400, "INVALID_RELATION_TYPE")
            ELSE IF franPersonId = 0 \/ tillPersonId = 0 THEN Reply(400, "MISSING_PERSON_IDS")
            ELSE IF franPersonId = tillPersonId THEN Reply(400, "SELF_RELATION_NOT_ALLOWED")
            ELSE IF ~PersonInTree(franPersonId, treeId) \/ ~PersonInTree(tillPersonId, treeId)
                 THEN Reply(400, "PERSON_NOT_IN_TREE")
            ELSE IF parentCount(treeId, tillPersonId) >= 2 THEN Reply(409, "MAX_PARENTS_REACHED")
            ELSE IF \E r \in relationer :
                        /\ r.treeId = treeId
                        /\ r.franPersonId = tillPersonId
                        /\ r.tillPersonId = franPersonId
                 THEN Reply(409, "CYCLE_NOT_ALLOWED_MINIMAL")
            ELSE Reply(201, "")
        id == sqlite_sequence.relationer + 1
    IN /\ req' = request
       /\ res' = reply
       /\ IF reply.status = 201
          THEN /\ relationer' = relationer \cup
                    {[id |-> id, treeId |-> treeId, franPersonId |-> franPersonId, tillPersonId |-> tillPersonId]}
               /\ sqlite_sequence' = [sqlite_sequence EXCEPT !.relationer = id]
          ELSE UNCHANGED <<relationer, sqlite_sequence>>
       /\ UNCHANGED <<users, trees, tree_members, slaktkort>>
       /\ UNCHANGED <<clientVars, flightVars>>

\* DELETE /trees/:treeId/relationer/:id
DeleteRelationer(cookie, treeIdParam, idParam) ==
    LET request == Request("DELETE /trees/:treeId/relationer/:id", cookie, treeIdParam, idParam, Undefined)
        treeId == asInt(treeIdParam)
        id == asInt(idParam)
        guard == TreeGuards(<<"E","D","I","T","O","R">>, request)
        reply ==
            IF guard # Passed THEN guard
            ELSE IF id = 0 THEN Reply(400, "INVALID_ID")
            ELSE IF ~\E r \in relationer : r.id = id /\ r.treeId = treeId THEN Reply(404, "NOT_FOUND")
            ELSE Reply(200, "")
    IN /\ req' = request
       /\ res' = reply
       /\ relationer' =
            IF reply.status = 200
            THEN { r \in relationer : ~(r.id = id /\ r.treeId = treeId) }
            ELSE relationer
       /\ UNCHANGED <<users, trees, tree_members, slaktkort, sqlite_sequence>>
       /\ UNCHANGED <<clientVars, flightVars>>

-----------------------------------------------------------------------------
(* The requests sent to the backend *)

RegisterBody(email, password, displayName) ==
    JObj(<< <<"email", email>>, <<"password", password>>, <<"displayName", displayName>> >>)

RegisterBodies ==
    { RegisterBody(JStr(<<"a","@","x",".","s","e">>), JStr(<<"h","e","m","l","i","g","t","1">>), JStr(<<"A","n","n","a">>)),
      RegisterBody(JStr(<<" ","A","@","X",".","s","e"," ">>), JStr(<<"h","e","m","l","i","g","t","2">>), JStr(<<"A","n","n","a"," ","L">>)),
      RegisterBody(JStr(<<"b","@","x",".","s","e">>), JStr(<<"h","e","m","l","i","g","t","3">>), JStr(<<"B","o">>)),
      RegisterBody(JStr(<<"b","@","x">>), JStr(<<"h","e","m","l","i","g","t","4">>), JStr(<<"B","o">>)),
      RegisterBody(JStr(<<"c","@","x",".","s","e">>), JStr(<<"k","o","r","t">>), JStr(<<"C","i","l","l","a">>)),
      RegisterBody(JStr(<<"c","@","x",".","s","e">>), JStr(<<"h","e","m","l","i","g","t","5">>), JStr(<<"C">>)),
      Undefined }

\* the cookies register and login have handed out
SignedCookies == { signToken(u) : u \in 1..Len(users) }

Cookies == SignedCookies \cup {NoCookie, ForgedCookie}

TreeBodies == { JObj(<< <<"name", JStr(<<"L","i","n","d">>)>> >>), JObj(<< <<"name", JStr(<<" ","L"," ">>)>> >>) }

\* :treeId of the trees that exist
TreeIds == { JStr(NatToDigits(t)) : t \in trees }

\* :treeId of the first `n' trees, whether created yet or not, and a text
\* that is no id
TreeIdParams(n) == { JStr(NatToDigits(t)) : t \in 1..n } \cup { JStr(<<"x">>) }

\* :id of a row, and 0
IdParams(n) == { JStr(NatToDigits(k)) : k \in 0..n }

MemberBody(email, role) == JObj(<< <<"email", email>>, <<"role", role>> >>)

MemberEmails == { JStr(<<" ","B","@","x",".","s","e">>) }

MemberRoles == { JStr(<<"e","d","i","t","o","r">>), JStr(<<"V","I","E","W","E","R">>), JStr(<<"O","W","N","E","R">>) }

MemberBodies ==
    { MemberBody(e, r) : e \in MemberEmails, r \in MemberRoles }
    \cup { MemberBody(JStr(<<"c","@","x",".","s","e">>), JStr(<<"E","D","I","T","O","R">>)),
           MemberBody(JStr(<<"b","@","x",".","s","e">>), JStr(<<"A","D","M","I","N">>)),
           MemberBody(JStr(<<"b">>), JStr(<<"E","D","I","T","O","R">>)) }

KortBody(fornamn, efternamn, kon, fodelsear) ==
    JObj(<< <<"fornamn", fornamn>>, <<"efternamn", efternamn>>, <<"kon", kon>>, <<"fodelsear", fodelsear>> >>)

KortBodies ==
    { KortBody(JStr(<<"A","n","n","a">>), JStr(<<"L","i","n","d">>), Undefined, JNum(1704)),
      KortBody(JStr(<<"A","n","n","a">>), JStr(<<" ">>), JStr(<<"K","v","i","n","n","a">>), Null),
      KortBody(JStr(<<"E","r","i","k">>), JStr(<<"L","i","n","d">>), JStr(<<"H","e","r","r">>), Null),
      KortBody(JStr(<<"E","r","i","k">>), JStr(<<"L","i","n","d">>), JStr(<<"M","a","n">>), JStr(<<"1","7","0","4","0">>)) }

RelationBody(typ, franPersonId, tillPersonId) ==
    JObj(<< <<"typ", typ>>, <<"franPersonId", franPersonId>>, <<"tillPersonId", tillPersonId>> >>)

\* relations between the first `n' persons, ids as numbers or as texts
RelationBodies(n) ==
    { RelationBody(JStr(<<"F","O","R","A","L","D","E","R","_","B","A","R","N">>), JNum(a), JNum(b)) : a, b \in 1..n }
    \cup { RelationBody(JStr(<<"F","O","R","A","L","D","E","R","_","B","A","R","N">>), JStr(<<"1">>), JStr(<<"2">>)),
           RelationBody(JStr(<<"S","Y","S","K","O","N">>), JNum(1), JNum(2)),
           RelationBody(JStr(<<"F","O","R","A","L","D","E","R","_","B","A","R","N">>), JNum(1), Undefined) }

-----------------------------------------------------------------------------
(* One account builds a family in one tree *)

\* accounts registered
FamilyAccounts == 1

\* trees created
FamilyTrees == 1

\* släktkort created, deleted ones counted
FamilyKort == 3

\* relations created, deleted ones counted
FamilyRelationer == 3

ClientIdle ==
    /\ variant = "v41"
    /\ proxySet = TRUE
    /\ preferred = NoArgument
    /\ allowNetwork = NoArgument
    /\ provider = "demo"
    /\ query = Undefined
    /\ pc = "idle"
    /\ fetchCalls = 0
    /\ response = NoResponse
    /\ outcome = Pending
    /\ origin = <<>>
    /\ arg = Undefined
    /\ ret = [birthYear |-> Null, deathYear |-> Null]

BackendInit == DbInit /\ ClientIdle /\ NoFlights

RelationerNext ==
    \/ \E body \in RegisterBodies : Len(users) < FamilyAccounts /\ Register(body)
    \/ \E cookie \in SignedCookies, body \in TreeBodies :
            Cardinality(trees) < FamilyTrees /\ PostTrees(cookie, body)
    \/ \E cookie \in SignedCookies, treeId \in TreeIds, body \in KortBodies :
            sqlite_sequence.slaktkort < FamilyKort /\ PostSlaktkort(cookie, treeId, body)
    \/ \E cookie \in SignedCookies, treeId \in TreeIds, id \in IdParams(FamilyKort) :
            DeleteSlaktkort(cookie, treeId, id)
    \/ \E cookie \in SignedCookies, treeId \in TreeIds, body \in RelationBodies(FamilyKort) :
            sqlite_sequence.relationer < FamilyRelationer /\ PostRelationer(cookie, treeId, body)
    \/ \E cookie \in SignedCookies, treeId \in TreeIds, id \in IdParams(FamilyRelationer) :
            DeleteRelationer(cookie, treeId, id)

SpecRelationer == BackendInit /\ [][RelationerNext]_vars

-----------------------------------------------------------------------------
(* Two accounts share one small tree *)

\* accounts registered
RollerAccounts == 2

\* trees created
RollerTrees == 1

\* släktkort created, deleted ones counted
RollerKort == 2

\* relations created, deleted ones counted
RollerRelationer == 1

\* a request comes with the cookie of an account or without one
SessionCookies == SignedCookies \cup {NoCookie}

RollerTreeIds == { JStr(NatToDigits(t)) : t \in 1..RollerTrees }

RollerNext ==
    \/ \E body \in RegisterBodies : Len(users) < RollerAccounts /\ Register(body)
    \/ \E cookie \in Cookies : GetTrees(cookie)
    \/ \E cookie \in Cookies, body \in TreeBodies :
            Cardinality(trees) < RollerTrees /\ PostTrees(cookie, body)
    \/ \E cookie \in SessionCookies, treeId \in TreeIdParams(RollerTrees) : GetMembers(cookie, treeId)
    \/ \E cookie \in SessionCookies, treeId \in RollerTreeIds, body \in MemberBodies :
            PostMembers(cookie, treeId, body)
    \/ \E cookie \in SessionCookies, treeId \in TreeIdParams(RollerTrees) : GetSlaktkort(cookie, treeId)
    \/ \E cookie \in SessionCookies, treeId \in RollerTreeIds, body \in KortBodies :
            sqlite_sequence.slaktkort < RollerKort /\ PostSlaktkort(cookie, treeId, body)
    \/ \E cookie \in SessionCookies, treeId \in RollerTreeIds, id \in IdParams(RollerKort) :
            DeleteSlaktkort(cookie, treeId, id)
    \/ \E cookie \in SessionCookies, treeId \in TreeIdParams(RollerTrees) : GetRelationer(cookie, treeId)
    \/ \E cookie \in SessionCookies, treeId \in RollerTreeIds, body \in RelationBodies(RollerKort) :
            sqlite_sequence.relationer < RollerRelationer /\ PostRelationer(cookie, treeId, body)
    \/ \E cookie \in SessionCookies, treeId \in RollerTreeIds, id \in IdParams(RollerRelationer) :
            DeleteRelationer(cookie, treeId, id)

SpecRoller == BackendInit /\ [][RollerNext]_vars

-----------------------------------------------------------------------------
(* One account keeps two trees *)

\* accounts registered
ForestAccounts == 1

\* trees created
ForestTrees == 2

\* släktkort created, deleted ones counted
ForestKort == 3

\* relations created, deleted ones counted
ForestRelationer == 1

ForestNext ==
    \/ \E body \in RegisterBodies : Len(users) < ForestAccounts /\ Register(body)
    \/ \E cookie \in SignedCookies, body \in TreeBodies :
            Cardinality(trees) < ForestTrees /\ PostTrees(cookie, body)
    \/ \E cookie \in SignedCookies, treeId \in TreeIds, body \in KortBodies :
            sqlite_sequence.slaktkort < ForestKort /\ PostSlaktkort(cookie, treeId, body)
    \/ \E cookie \in SignedCookies, treeId \in TreeIds, id \in IdParams(ForestKort) :
            DeleteSlaktkort(cookie, treeId, id)
    \/ \E cookie \in SignedCookies, treeId \in TreeIds, body \in RelationBodies(ForestKort) :
            sqlite_sequence.relationer < ForestRelationer /\ PostRelationer(cookie, treeId, body)
    \/ \E cookie \in SignedCookies, treeId \in TreeIds, id \in IdParams(ForestRelationer) :
            DeleteRelationer(cookie, treeId, id)

SpecForest == BackendInit /\ [][ForestNext]_vars
-----------------------------------------------------------------------------
(* Calls in flight: abortableFetch (src/unnamed/part_003:382-386 and        *)
(* src/unnamed/part_002:39-44) as SearchApiProvider.search of PATCH v4.1    *)
(* and the enrich probes of part_002 use it.  Every call has the controller *)
(* and the timer its own abortableFetch made.  A step is one task of the    *)
(* event loop with the microtasks it starts: when fetch settles, the        *)
(* finally callback and the code after the await run in the same step.      *)

FlightKinds == {"search", "enrich-iiif-01", "enrich-oai-01"}

\* what fetch rejects with when its signal is aborted
AbortError == [name |-> "AbortError", message |-> <<"T","h","e"," ","u","s","e","r"," ","a","b","o","r","t","e","d"," ","a"," ","r","e","q","u","e","s","t",".">>]

\* what fetch rejects with when the network fails
NetworkError == [name |-> "TypeError", message |-> <<"F","a","i","l","e","d"," ","t","o"," ","f","e","t","c","h">>]

\* variation: one controller shared by every call
AbortScope_Mutant(c) == Calls

\* the calls whose signal the timer of call c aborts: controller is a const
\* of the abortableFetch invocation that set the timer
AbortScope(c) == {c}

\* variation: fetch(url, {signal}) without the finally
TimerOnSettle_Mutant(t) == t

\* .finally(() => clearTimeout(timer)): the state of the timer once fetch
\* has settled
TimerOnSettle(t) == IF t = "armed" THEN "cleared" ELSE t

\* the code after `await abortableFetch(url)' when it rejects
RejectedOutcome(kind, input, err) ==
    IF kind = "search" THEN OnFetchRejected("v41", err) ELSE Returned(AfterProbeRejected(kind, input))

\* if (!res.ok)
BadStatusOutcome(kind, input, status) ==
    IF kind = "search" THEN OnBadStatus("v41", status) ELSE Returned(AfterProbeBadStatus(kind, input))

\* the code after `await res.json()' when it resolves
JsonOutcome(kind, input, json) ==
    IF kind = "search" THEN AfterJson_v41(json).outcome ELSE Returned(AfterProbeJson(kind, input, json))

\* the code after `await res.json()' when it rejects: BAD_JSON in search,
\* json = null in the probes
BadJsonOutcome(kind, input) ==
    IF kind = "search" THEN Thrown("Error", <<"B","A","D","_","J","S","O","N">>) ELSE Returned(AfterProbeJson(kind, input, Null))

\* what an enrich call returns without a probe, if it does
NeedsProbe(kind, candidate) ==
    IF kind = "enrich-iiif-01"
    THEN ~(CandidateUrl(candidate) # <<>> /\ looksIiif(CandidateUrl(candidate))) /\ CandidateId(candidate) # <<>>
    ELSE CandidateId(candidate) # <<>>

EarlyBits(kind, candidate) ==
    IF kind = "enrich-iiif-01"
    THEN IF CandidateUrl(candidate) # <<>> /\ looksIiif(CandidateUrl(candidate))
         THEN <<IiifLinkBit(CandidateUrl(candidate), CandidateId(candidate))>>
         ELSE <<>>
    ELSE OaiLinkBits(candidate)

\* what the abort of its signal does to a call: a pending fetch rejects with
\* an AbortError, a pending body read rejects too
AbortEffect(cl) ==
    IF cl.pc = "awaitFetch"
    THEN [cl EXCEPT !.pc = "done", !.outcome = RejectedOutcome(cl.kind, cl.input, AbortError)]
    ELSE IF cl.pc = "awaitJson"
    THEN [cl EXCEPT !.pc = "done", !.outcome = BadJsonOutcome(cl.kind, cl.input)]
    ELSE cl

\* qRaw.replace(/\+/g, " ")
ReplacePlus(s) == [i \in 1..Len(s) |-> IF s[i] = "+" THEN " " ELSE s[i]]

\* s.replace(/\s+/g, " "): every run of whitespace becomes one space
CollapseSpace(s) ==
    LET kept == SelectSeq([i \in 1..Len(s) |-> i], LAMBDA i : ~(IsSpace(s[i]) /\ i > 1 /\ IsSpace(s[i - 1])))
    IN [k \in 1..Len(kept) |-> IF IsSpace(s[kept[k]]) THEN " " ELSE s[kept[k]]]

\* q of SearchApiProvider.search: the sanitised query
SanitizedQuery(q) == trim(CollapseSpace(ReplacePlus(RemoteQuery("v41", q))))

\* URLSearchParams.get of the worker: "+" is a space, %XX is decoded
RECURSIVE SearchParamsGet(_)
SearchParamsGet(s) ==
    IF s = <<>> THEN <<>>
    ELSE IF s[1] = "+" THEN <<" ">> \o SearchParamsGet(Tail(s))
    ELSE IF s[1] # "%" THEN <<s[1]>> \o SearchParamsGet(Tail(s))
    ELSE LET hit == { i \in DOMAIN EncodeTable : MatchAt(s, EncodeTable[i][2], 1) }
         IN IF hit = {} THEN <<s[1]>> \o SearchParamsGet(Tail(s))
            ELSE LET i == CHOOSE i \in hit : TRUE
                 IN <<EncodeTable[i][1]>> \o SearchParamsGet(SubSeq(s, Len(EncodeTable[i][2]) + 1, Len(s)))

\* name of the worker's /records route: String(url.searchParams.get("name") || "").trim()
WorkerName(sent) == trim(SearchParamsGet(sent))

\* the statuses the worker can answer a /records request with: 400
\* NAME_TOO_SHORT when the name has fewer than 2 characters
WorkerStatuses(sent) == IF Len(WorkerName(sent)) < 2 THEN {400} ELSE {200, 500}

FlightQueries == << JStr(<<"a","b">>), JStr(<<" ","K","a","r","l"," ">>), JStr(<<"a","+","+">>) >>

FlightCandidates == <<
    JObj(<< <<"id", JStr(<<"p","1">>)>>, <<"name", JStr(<<"E","r","i","k"," ","L","i","n","d">>)>>, <<"url", JStr(<<"h","t","t","p","s",":","/","/","r","a",".","s","e","/","a","g","e","n","t","/","p","1">>)>> >>),
    JObj(<< <<"name", JStr(<<"E","r","i","k"," ","L","i","n","d">>)>>, <<"url", JStr(<<"h","t","t","p","s",":","/","/","r","a",".","s","e","/","i","i","i","f","/","7","/","m","a","n","i","f","e","s","t">>)>> >>) >>

FlightStatuses == {200, 400, 500}

FlightBodies(kind) ==
    IF kind = "search"
    THEN { JObj(<< <<"items", JArr(<<ItemPerson>>)>> >>), JObj(<< <<"items", JArr(<<ItemDrawing>>)>> >>) }
    ELSE { JObj(<< <<"manifest", JStr(<<"h","t","t","p","s",":","/","/","r","a",".","s","e","/","i","i","i","f","/","7","/","m","a","n","i","f","e","s","t">>)>>, <<"oaiUrl", JStr(<<"h","t","t","p","s",":","/","/","r","a",".","s","e","/","o","a","i","?","v","e","r","b","=","G","e","t","R","e","c","o","r","d">>)>> >>),
           JObj(<<>>) }

\* abortableFetch(url): new AbortController(), setTimeout, fetch
\* `sent' is the encoded value of the name or recordId parameter of url
AbortableFetch(c, sent) ==
    /\ controller' = [controller EXCEPT ![c] = "created"]
    /\ timer' = [timer EXCEPT ![c] = "armed"]
    /\ upstream' = [upstream EXCEPT ![c].phase = "open", ![c].name = sent]

\* SearchApiProvider.search(q) of PATCH v4.1 up to its first await
StartSearch(c, q) ==
    /\ call[c].pc = "idle"
    /\ IF Len(RemoteQuery("v41", q)) < MinQueryLen("v41")
       THEN /\ call' = [call EXCEPT ![c] = [kind |-> "search", input |-> q, pc |-> "done", outcome |-> Returned(<<>>)]]
            /\ UNCHANGED <<controller, timer, upstream>>
       ELSE /\ call' = [call EXCEPT ![c] = [kind |-> "search", input |-> q, pc |-> "awaitFetch", outcome |-> Pending]]
            /\ AbortableFetch(c, encodeURIComponent(SanitizedQuery(q)))
    /\ UNCHANGED <<clientVars, backendVars>>

\* EnrichIIIF.enrich(candidate) or EnrichOAI.enrich(candidate) of part_002 up
\* to its first return or await
StartEnrich(c, kind, candidate) ==
    /\ call[c].pc = "idle"
    /\ IF NeedsProbe(kind, candidate)
       THEN /\ call' = [call EXCEPT ![c] = [kind |-> kind, input |-> candidate, pc |-> "awaitFetch", outcome |-> Pending]]
            /\ AbortableFetch(c, encodeURIComponent(CandidateId(candidate)))
       ELSE /\ call' = [call EXCEPT ![c] = [kind |-> kind, input |-> candidate, pc |-> "done",
                                            outcome |-> Returned(EarlyBits(kind, candidate))]]
            /\ UNCHANGED <<controller, timer, upstream>>
    /\ UNCHANGED <<clientVars, backendVars>>

\* FETCH_TIMEOUT has passed: the timer callback of call c runs
\* controller.abort()
Timeout(c) ==
    /\ timer[c] = "armed"
    /\ LET hit == { d \in AbortScope(c) : controller[d] = "created" }
       IN /\ controller' = [d \in Calls |-> IF d \in hit THEN "aborted" ELSE controller[d]]
          /\ call' = [d \in Calls |-> IF d \in hit THEN AbortEffect(call[d]) ELSE call[d]]
          /\ upstream' = [d \in Calls |->
                             IF d \in hit /\ call[d].pc \in {"awaitFetch", "awaitJson"}
                             THEN [upstream[d] EXCEPT !.phase = "cancelled"] ELSE upstream[d]]
          /\ timer' = [d \in Calls |->
                          IF d = c THEN "fired"
                          ELSE IF d \in hit /\ call[d].pc = "awaitFetch" THEN TimerOnSettle(timer[d])
                          ELSE timer[d]]
    /\ UNCHANGED <<clientVars, backendVars>>

\* the response headers of call c arrive: fetch resolves
Responds(c, status) ==
    /\ call[c].pc = "awaitFetch"
    /\ call[c].kind = "search" => status \in WorkerStatuses(upstream[c].name)
    /\ upstream' = [upstream EXCEPT ![c].phase = "status", ![c].status = status]
    /\ timer' = [timer EXCEPT ![c] = TimerOnSettle(timer[c])]
    /\ call' = [call EXCEPT ![c] =
                   IF ResOk(status) THEN [@ EXCEPT !.pc = "awaitJson"]
                   ELSE [@ EXCEPT !.pc = "done", !.outcome = BadStatusOutcome(call[c].kind, call[c].input, status)]]
    /\ UNCHANGED controller
    /\ UNCHANGED <<clientVars, backendVars>>

\* the network fails before the headers: fetch rejects
FetchFails(c) ==
    /\ call[c].pc = "awaitFetch"
    /\ upstream' = [upstream EXCEPT ![c].phase = "rejected"]
    /\ timer' = [timer EXCEPT ![c] = TimerOnSettle(timer[c])]
    /\ call' = [call EXCEPT ![c] = [@ EXCEPT !.pc = "done", !.outcome = RejectedOutcome(call[c].kind, call[c].input, NetworkError)]]
    /\ UNCHANGED controller
    /\ UNCHANGED <<clientVars, backendVars>>

\* the body of call c has arrived and parses: res.json() resolves
BodyArrives(c, json) ==
    /\ call[c].pc = "awaitJson"
    /\ json \in FlightBodies(call[c].kind)
    /\ upstream' = [upstream EXCEPT ![c].phase = "json", ![c].json = json]
    /\ call' = [call EXCEPT ![c] = [@ EXCEPT !.pc = "done", !.outcome = JsonOutcome(call[c].kind, call[c].input, json)]]
    /\ UNCHANGED <<controller, timer>>
    /\ UNCHANGED <<clientVars, backendVars>>

\* the body of call c breaks off or is not JSON: res.json() rejects
BodyBreaks(c) ==
    /\ call[c].pc = "awaitJson"
    /\ upstream' = [upstream EXCEPT ![c].phase = "badjson"]
    /\ call' = [call EXCEPT ![c] = [@ EXCEPT !.pc = "done", !.outcome = BadJsonOutcome(call[c].kind, call[c].input)]]
    /\ UNCHANGED <<controller, timer>>
    /\ UNCHANGED <<clientVars, backendVars>>

FlightInit == DbInit /\ ClientIdle /\ NoFlights

FlightNext ==
    \/ \E c \in Calls, i \in 1..Len(FlightQueries) : StartSearch(c, FlightQueries[i])
    \/ \E c \in Calls, kind \in FlightKinds \ {"search"}, i \in 1..Len(FlightCandidates) :
            StartEnrich(c, kind, FlightCandidates[i])
    \/ \E c \in Calls : Timeout(c)
    \/ \E c \in Calls, status \in FlightStatuses : Responds(c, status)
    \/ \E c \in Calls : FetchFails(c)
    \/ \E c \in Calls, json \in FlightBodies("search") \cup FlightBodies("enrich-iiif-01") : BodyArrives(c, json)
    \/ \E c \in Calls : BodyBreaks(c)

SpecFlight == FlightInit /\ [][FlightNext]_vars

\* setTimeout: an armed timer that is not cleared fires
SpecFlightFair == SpecFlight /\ \A c \in Calls : WF_vars(Timeout(c))
-----------------------------------------------------------------------------
(* Properties *)

\* the text of the query argument; no argument and null are the empty query
QueryText == IF query[1] = "str" THEN query[2] ELSE <<>>

\* the raw item the k-th returned Candidate was made from
OriginItem(k) == RawItemsOf(variant, response.json)[origin[k]]

\* the call has ended with a list
HasReturned == pc = "done" /\ outcome.kind = "returned"

\* the remote call has ended after the body was decoded
AfterDecode == pc = "done" /\ provider # "demo" /\ response.phase = "json"

Failed(message) == outcome = Thrown("Error", message)

\* C1: a search whose trimmed query is shorter than the minimum length (3 in
\* PATCH v4.1, 2 in the other revisions) has returned the empty list, and
\* fetch was not invoked during the call; this holds for the demo provider
\* and for the remote providers
C1_QueryFloor ==
    (pc # "idle" /\ Len(trim(QueryText)) < (IF variant = "v41" THEN 3 ELSE 2))
        => (pc = "done" /\ outcome = Returned(<<>>) /\ fetchCalls = 0)

\* a remote search of PATCH v4.1 for "an" has returned [] without a fetch
C1_Witness ==
    /\ variant = "v41" /\ provider = "searchapi" /\ pc = "done"
    /\ query = JStr(<<"a","n">>)
    /\ outcome = Returned(<<>>) /\ fetchCalls = 0

\* C2: a remote search that issued a request ends in one outcome class:
\* NETWORK_OR_TIMEOUT when fetch rejected, whatever the cause;
\* UPSTREAM_HTTP_<status> when the status is outside 2xx; BAD_JSON when the
\* body did not parse; otherwise none of these three: the call went on to
\* item extraction
C2_OutcomeClasses ==
    (pc = "done" /\ fetchCalls > 0) =>
        /\ response.phase = "rejected" => Failed(<<"N","E","T","W","O","R","K","_","O","R","_","T","I","M","E","O","U","T">>)
        /\ response.phase = "status" => Failed(<<"U","P","S","T","R","E","A","M","_","H","T","T","P","_">> \o NatToDigits(response.status))
        /\ response.phase = "badjson" => Failed(<<"B","A","D","_","J","S","O","N">>)
        /\ response.phase = "json" =>
              /\ ~Failed(<<"N","E","T","W","O","R","K","_","O","R","_","T","I","M","E","O","U","T">>)
              /\ ~Failed(<<"B","A","D","_","J","S","O","N">>)
              /\ ~Failed(<<"U","P","S","T","R","E","A","M","_","H","T","T","P","_">> \o NatToDigits(response.status))

\* the envelope keys of C3, in priority order
EnvelopeKeys == <<"items", "records", "data", "results">>

\* no envelope key holds a list, or the first key that holds anything holds
\* something that is not a list
BadEnvelope(json) ==
    \/ \A i \in 1..Len(EnvelopeKeys) : ~IsArray(Get(json, EnvelopeKeys[i]))
    \/ \E i \in 1..Len(EnvelopeKeys) :
          /\ Truthy(Get(json, EnvelopeKeys[i]))
          /\ ~IsArray(Get(json, EnvelopeKeys[i]))
          /\ \A j \in 1..(i - 1) : ~Truthy(Get(json, EnvelopeKeys[j]))

\* C3: when the decoded body has no envelope key (items, records, data,
\* results) holding a list, or the matched value is not a list, the search
\* fails with BAD_PAYLOAD: it returns no list and throws no other error
C3_BadPayload ==
    (AfterDecode /\ BadEnvelope(response.json)) => Failed(<<"B","A","D","_","P","A","Y","L","O","A","D">>)

\* C4: the list a search returns is never longer than MAX_LIMIT = 150,
\* however many items the upstream answered
C4_ResultCeiling ==
    HasReturned => Len(outcome.list) <= 150

\* the url is empty or starts with http:// or https:// (scheme in any case)
IsEmptyOrHttp(url) ==
    \/ url = <<>>
    \/ Len(url) >= 7 /\ toLowerCase(SubSeq(url, 1, 7)) = <<"h","t","t","p",":","/","/">>
    \/ Len(url) >= 8 /\ toLowerCase(SubSeq(url, 1, 8)) = <<"h","t","t","p","s",":","/","/">>

\* C5: every Candidate of a returned list has a url that is empty or starts
\* with http:// or https://
C5_UrlEmptyOrHttp ==
    HasReturned => \A k \in 1..Len(outcome.list) : IsEmptyOrHttp(outcome.list[k].url)

\* the revisions whose remote search filters the items with a person classifier
ClassifierVariants == {"v41", "v4"}

\* the fields an item states its type in
TypeIndicatorKeys == <<"objectType", "type", "@type", "recordType", "entityType", "kind", "class">>

\* the lower-cased texts of a type field: a string, or the strings of a list
TextsOf(x) ==
    IF x[1] = "str" THEN { toLowerCase(x[2]) }
    ELSE IF x[1] = "arr" THEN { toLowerCase(x[2][i][2]) : i \in { j \in 1..Len(x[2]) : x[2][j][1] = "str" } }
    ELSE {}

\* every type-like token of an item: its type fields and those of its metadata
TypeTexts(item) ==
    UNION { TextsOf(Get(item, TypeIndicatorKeys[i])) \cup TextsOf(Get(Get(item, "metadata"), TypeIndicatorKeys[i]))
            : i \in 1..Len(TypeIndicatorKeys) }

\* the texts an item is displayed by
DisplayTexts(item) ==
    UNION { TextsOf(Get(item, key)) : key \in {"caption", "name", "title", "label", "displayName"} }

\* terms of the stoplist: church, chapel, parish, drawing, sketch, building
StopTerms == << <<"k","y","r","k","a">>, <<"k","a","p","e","l","l">>, <<"f","ö","r","s","a","m","l","i","n","g">>, <<"r","i","t","n","i","n","g">>, <<"s","k","i","s","s">>, <<"b","y","g","g","n","a","d">> >>

\* q occurs in s
Occurs(q, s) == \E i \in 0..(Len(s) - Len(q)) : \A j \in 1..Len(q) : s[i + j] = q[j]

NoTypeIndicator(item) == TypeTexts(item) = {}

HasStopTerm(item) == \E t \in DisplayTexts(item) : \E i \in 1..Len(StopTerms) : Occurs(StopTerms[i], t)

NonPersonTerms == << <<"s","e","r","i","e","s">>, <<"p","l","a","c","e">>, <<"b","u","i","l","d","i","n","g">>, <<"d","r","a","w","i","n","g">>, <<"m","a","p">>, <<"p","h","o","t","o","g","r","a","p","h">>, <<"r","e","c","o","r","d"," ","s","e","t">>, <<"r","e","c","o","r","d","s","e","t">> >>

HasNonPersonType(item) ==
    \E t \in TypeTexts(item) : \E i \in 1..Len(NonPersonTerms) : Occurs(NonPersonTerms[i], t)

\* C7: no returned Candidate was made from an item one of whose type-like
\* tokens contains a term of the non-person vocabulary, the items with
\* objectType = agent and type = person included
C7_NegativeTypeWins ==
    (AfterDecode /\ variant \in ClassifierVariants /\ outcome.kind = "returned") =>
        \A k \in 1..Len(origin) : ~HasNonPersonType(OriginItem(k))

\* the demo records a query selects: those whose lower-cased trimmed name or
\* place contains the lower-cased trimmed query
Selected(data, q) ==
    { i \in 1..Len(data) :
        \/ Occurs(q, toLowerCase(trim(data[i].name[2])))
        \/ Occurs(q, toLowerCase(trim(data[i].place[2]))) }

\* C8: for a query at or above the minimum length, DemoProvider.search
\* returns the demo records whose lower-cased trimmed name or place contains
\* the lower-cased trimmed query, all of them and no others, in dataset
\* order, each with source "Demo"
C8_DemoSearchExact ==
    LET q == toLowerCase(trim(QueryText))
        data == IF variant = "ao01" THEN DEMO ELSE DEMO_DATA
    IN (pc = "done" /\ provider = "demo" /\ Len(q) >= (IF variant = "v41" THEN 3 ELSE 2)) =>
          /\ outcome.kind = "returned"
          /\ Len(outcome.list) = Len(origin)
          /\ { origin[k] : k \in 1..Len(origin) } = Selected(data, q)
          /\ \A k \in 1..(Len(origin) - 1) : origin[k] < origin[k + 1]
          /\ \A k \in 1..Len(origin) :
                /\ outcome.list[k].id = data[origin[k]].id[2]
                /\ outcome.list[k].name = data[origin[k]].name[2]
                /\ outcome.list[k].place = data[origin[k]].place[2]
                /\ outcome.list[k].source = <<"D","e","m","o">>

\* "Karl" has returned the one record that contains "karl"
C8_Witness ==
    /\ pc = "done" /\ provider = "demo" /\ variant = "v41"
    /\ query = JStr(<<"K","a","r","l">>)
    /\ Len(outcome.list) = 1
    /\ outcome.list[1].name = <<"K","a","r","l"," ","J","o","h","a","n","s","s","o","n">>
    /\ outcome.list[1].source = <<"D","e","m","o">>

\* the text of the date argument
DateText == IF arg[1] = "str" THEN arg[2] ELSE <<>>

\* positions where a run of exactly four digits starts
FourDigitTokens(s) ==
    { p \in 1..(Len(s) - 3) :
        /\ \A j \in p..(p + 3) : IsDigit(s[j])
        /\ p = 1 \/ ~IsDigit(s[p - 1])
        /\ p + 3 = Len(s) \/ ~IsDigit(s[p + 4]) }

\* the number written by the four digits at p
YearAt(s, p) == 1000 * DigitVal(s[p]) + 100 * DigitVal(s[p + 1]) + 10 * DigitVal(s[p + 2]) + DigitVal(s[p + 3])

\* the first token becomes birthYear, the second deathYear, absent without
FirstTwo(s, tokens) ==
    LET first == CHOOSE p \in tokens : \A r \in tokens : p <= r
        rest == tokens \ {first}
        second == CHOOSE p \in rest : \A r \in rest : p <= r
    IN [ birthYear |-> IF tokens = {} THEN Null ELSE JNum(YearAt(s, first)),
         deathYear |-> IF tokens = {} \/ rest = {} THEN Null ELSE JNum(YearAt(s, second)) ]

YearTokens(s) ==
    { p \in 1..(Len(s) - 3) :
        /\ \A j \in p..(p + 3) : IsDigit(s[j])
        /\ YearAt(s, p) >= 1000 /\ YearAt(s, p) <= 2099
        /\ p = 1 \/ ~(IsAsciiLetter(s[p - 1]) \/ IsDigit(s[p - 1]) \/ s[p - 1] = "_")
        /\ p + 3 = Len(s) \/ ~(IsAsciiLetter(s[p + 4]) \/ IsDigit(s[p + 4]) \/ s[p + 4] = "_") }

RegisteredRemote == Registry(variant, proxySet) \ {"demo"}

\* C10: pickProvider with a registered id returns that provider, with an
\* unregistered id the demo provider, and with "auto" (or no argument) a
\* remote provider when one is registered and demo otherwise; calls that
\* forbid the network (allowNetwork: false) are left aside
C10_PickPolicy ==
    (pc = "picked" /\ allowNetwork # "false") =>
        IF preferred \in {"auto", NoArgument}
        THEN IF RegisteredRemote # {} THEN provider \in RegisteredRemote ELSE provider = "demo"
        ELSE IF preferred \in Registry(variant, proxySet) THEN provider = preferred
        ELSE provider = "demo"


\* the message of the failure starts with UPSTREAM_HTTP_
IsUpstreamHttp(message) ==
    Len(message) > 14 /\ SubSeq(message, 1, 14) = <<"U","P","S","T","R","E","A","M","_","H","T","T","P","_">>

\* one of the four typed failures
TypedFailure ==
    /\ outcome.kind = "thrown"
    /\ outcome.error.name = "Error"
    /\ \/ outcome.error.message \in {<<"N","E","T","W","O","R","K","_","O","R","_","T","I","M","E","O","U","T">>, <<"B","A","D","_","J","S","O","N">>, <<"B","A","D","_","P","A","Y","L","O","A","D">>}
       \/ IsUpstreamHttp(outcome.error.message)

\* C11: a remote search of PATCH v4.1 or v4 that has ended, whatever body
\* was decoded (null, a non-object, a list with null or non-object items),
\* has returned a list or failed with NETWORK_OR_TIMEOUT,
\* UPSTREAM_HTTP_<status>, BAD_JSON or BAD_PAYLOAD; it has thrown no other
\* error
C11_ListOrTypedFailure ==
    (pc = "done" /\ provider # "demo" /\ variant \in ClassifierVariants) =>
        (outcome.kind = "returned" \/ TypedFailure)

\* a year that is absent (null) or an integer from 1000 to 2099
YearOrAbsent(y) == y = Null \/ (y[1] = "num" /\ y[2] >= 1000 /\ y[2] <= 2099)

\* C14: every Candidate of a returned list has a birthYear and a deathYear
\* that are each null or an integer in 1000..2099; never 0, NaN or a value
\* that is not a number
C14_YearsPlausibleOrAbsent ==
    HasReturned =>
        \A k \in 1..Len(outcome.list) :
            YearOrAbsent(outcome.list[k].birthYear) /\ YearOrAbsent(outcome.list[k].deathYear)

\* the raw item carries neither id nor identifier
HasNoId(item) == ~Truthy(Get(item, "id")) /\ ~Truthy(Get(item, "identifier"))

Accepts(v, item) == IF v = "v41" THEN isLikelyPersonItem(item) ELSE isPersonItem(item)

\* the raw items of the decoded body
RawItems == RawItemsOf(variant, response.json)

WhyIn == IF IsArray(arg) THEN arg[2] ELSE <<>>

\* C16: the why list makeCandidate returns has no entry twice and no null
\* entry, and its entries are the input's entries in the order of their
\* first occurrence
C16_WhyDeduplicated ==
    (pc = "done") =>
        /\ \A i, j \in 1..Len(ret.why) : ret.why[i] = ret.why[j] => i = j
        /\ \A i \in 1..Len(ret.why) : ret.why[i] \notin {<<"n","u","l","l">>, <<"u","n","d","e","f","i","n","e","d">>}
        /\ \A i, j \in 1..Len(ret.why) :
              i < j => \E a, b \in 1..Len(WhyIn) :
                          /\ a < b
                          /\ String(WhyIn[a]) = ret.why[i]
                          /\ String(WhyIn[b]) = ret.why[j]

\* the probe of the enrichment provider has failed: fetch rejected (network
\* failure or timeout), the status is outside 2xx, the body did not parse,
\* or the body lacks the field the provider expects
ProbeFailed ==
    \/ response.phase \in {"rejected", "badjson"}
    \/ response.phase = "status" /\ ~ResOk(response.status)
    \/ /\ response.phase = "json"
       /\ IF provider = "enrich-iiif-01"
          THEN \A k \in {"manifest", "url", "iiifManifest"} : ~Truthy(Get(response.json, k))
          ELSE \A k \in {"url", "oaiUrl"} : ~Truthy(Get(response.json, k))

\* C12: an enrich call that has ended has resolved with a bit list, whatever
\* the candidate (null included) and the outcome of the probe, and the list
\* is empty when the probe failed
C12_EnrichFailsClosed ==
    (pc = "done") =>
        /\ outcome.kind = "returned"
        /\ ProbeFailed => outcome.list = <<>>

\* the candidate carries no http(s) url
NoUsableUrl(candidate) ==
    LET url == Get(candidate, "url")
    IN ~(url[1] = "str" /\ url[2] # <<>> /\ IsEmptyOrHttp(trim(url[2])))

\* the candidate carries no id
NoCandidateId(candidate) == ~Truthy(Get(candidate, "id"))

\* C13: for a candidate with no usable (http/https) url and no id, enrich
\* has returned the empty bit list without a probe
C13_NothingToEnrich ==
    (pc # "idle" /\ NoUsableUrl(arg) /\ NoCandidateId(arg)) =>
        (pc = "done" /\ outcome = Returned(<<>>) /\ fetchCalls = 0)

\* the parent-to-child edges stored for a tree
Edges(treeId) ==
    { <<r.franPersonId, r.tillPersonId>> : r \in { x \in relationer : x.treeId = treeId } }

\* the persons reached from the set `from' along the edges
RECURSIVE ReachedFrom(_, _)
ReachedFrom(edges, from) ==
    LET more == from \cup { e[2] : e \in { x \in edges : x[1] \in from } }
    IN IF more = from THEN from ELSE ReachedFrom(edges, more)

HasCycle(edges) == \E e \in edges : e[1] \in ReachedFrom(edges, {e[2]})

\* C18: after any sequence of requests on släktkort and relations, the
\* parent-to-child graph of every tree has no cycle, of whatever length
C18_NoCycle == \A treeId \in trees : ~HasCycle(Edges(treeId))

\* the stored relations that point to a person of a tree
ParentRelations(treeId, personId) ==
    { r \in relationer : r.treeId = treeId /\ r.tillPersonId = personId }

AtMostTwoParents ==
    \A k \in slaktkort : Cardinality(ParentRelations(k.treeId, k.id)) <= 2

\* the request of this step is a POST of a relation by an EDITOR or OWNER,
\* between two distinct persons of the tree, to a child that has two parents
AsksThirdParent ==
    /\ req'.route = "POST /trees/:treeId/relationer"
    /\ TreeGuards(<<"E","D","I","T","O","R">>, req') = Passed
    /\ trim(String(Or(Body(req', "typ"), JStr(<<>>)))) = <<"F","O","R","A","L","D","E","R","_","B","A","R","N">>
    /\ LET treeId == asInt(req'.treeId)
           franPersonId == asInt(Body(req', "franPersonId"))
           tillPersonId == asInt(Body(req', "tillPersonId"))
       IN /\ franPersonId # tillPersonId
          /\ [id |-> franPersonId, treeId |-> treeId] \in slaktkort
          /\ [id |-> tillPersonId, treeId |-> treeId] \in slaktkort
          /\ Cardinality(ParentRelations(treeId, tillPersonId)) >= 2

ThirdParentRejected ==
    AsksThirdParent => (res' = Reply(409, "MAX_PARENTS_REACHED") /\ relationer' = relationer)

\* C19: at every moment every person has at most two relations pointing to
\* it, and a POST that would add a third is answered MAX_PARENTS_REACHED and
\* leaves the relations as they were
C19_AtMostTwoParents == []AtMostTwoParents /\ [][ThirdParentRejected]_vars

\* a third parent has just been refused to a child with two parents
C19_Witness ==
    /\ req.route = "POST /trees/:treeId/relationer"
    /\ res = Reply(409, "MAX_PARENTS_REACHED")
    /\ Cardinality(ParentRelations(asInt(req.treeId), asInt(Body(req, "tillPersonId")))) = 2

WriteRoutes ==
    { "POST /trees/:treeId/slaktkort", "DELETE /trees/:treeId/slaktkort/:id",
      "POST /trees/:treeId/relationer", "DELETE /trees/:treeId/relationer/:id" }

ReadRoutes == { "GET /trees/:treeId/slaktkort", "GET /trees/:treeId/relationer" }

MemberRoutes == { "GET /trees/:treeId/members", "POST /trees/:treeId/members" }

Succeeded(reply) == reply.status \in {200, 201}

\* the account a request is authenticated as, 0 when it is not
Requester(request) ==
    IF request.cookie \in SignedCookies
    THEN CHOOSE u \in 1..Len(users) : request.cookie = signToken(u)
    ELSE 0

\* the tree a request names, 0 when :treeId is no id
NamedTree(request) ==
    IF request.treeId[1] = "str" /\ request.treeId[2] # <<>>
       /\ \A i \in 1..Len(request.treeId[2]) : IsDigit(request.treeId[2][i])
    THEN DigitsToNat(request.treeId[2])
    ELSE 0

\* the requester's role in the tree named, "" for a non-member
RoleIn(request) ==
    LET rows == { m \in tree_members : m.treeId = NamedTree(request) /\ m.userId = Requester(request) }
    IN IF rows = {} THEN <<>> ELSE (CHOOSE m \in rows : TRUE).role

RolesRespected ==
    LET role == RoleIn(req')
    IN /\ (req'.route \in WriteRoutes /\ Succeeded(res')) => role \in { <<"O","W","N","E","R">>, <<"E","D","I","T","O","R">> }
       /\ (slaktkort' # slaktkort \/ relationer' # relationer) =>
              (req'.route \in WriteRoutes /\ role \in { <<"O","W","N","E","R">>, <<"E","D","I","T","O","R">> })
       /\ (req'.route \in (WriteRoutes \cup ReadRoutes \cup MemberRoutes) /\ role = <<"V","I","E","W","E","R">>) =>
              /\ Succeeded(res') <=> req'.route \in ReadRoutes
              /\ UNCHANGED <<users, trees, tree_members, slaktkort, relationer, sqlite_sequence>>
       /\ (req'.route \in MemberRoutes /\ Succeeded(res')) => role = <<"O","W","N","E","R">>
       /\ (tree_members' # tree_members /\ req'.route # "POST /trees") =>
              (req'.route = "POST /trees/:treeId/members" /\ role = <<"O","W","N","E","R">>)
       /\ (/\ req'.route \in (WriteRoutes \cup ReadRoutes \cup MemberRoutes)
           /\ Requester(req') # 0
           /\ NamedTree(req') # 0
           /\ role = <<>>) =>
              /\ res' = Reply(403, "NOT_A_MEMBER")
              /\ UNCHANGED <<users, trees, tree_members, slaktkort, relationer, sqlite_sequence>>

PrimarySignal(item) ==
    /\ normalize(JStr(pickText(And(item, Get(item, "objectType"))))) = <<"a","g","e","n","t">>
    /\ includes(normalize(JStr(pickText(And(item, Get(item, "type"))))), <<"p","e","r","s","o","n">>)
    /\ ~hasNegativeType(collectTypeTokens(item))

\* C21: in the revisions with a person classifier, a returned list holds a
\* Candidate for every raw item that carries the primary signal, unless the
\* list is as long as the ceiling, whatever the item's name looks like
C21_PrimarySignalAccepted ==
    (AfterDecode /\ variant \in ClassifierVariants /\ outcome.kind = "returned") =>
        \A i \in 1..Len(RawItems) :
            PrimarySignal(RawItems[i]) =>
                (Len(outcome.list) >= Limit(variant) \/ \E k \in 1..Len(origin) : origin[k] = i)

\* the name the revision's mapping loop reads from a raw item
BestName(v, item) == IF v = "v41" THEN extractBestPersonName(item) ELSE Caption_v4(item)

NamePasses(v, name) == IF v = "v41" THEN looksLikePersonName(name) ELSE looksLikePersonName_v4(name)

\* no primary signal, no negative token, and a name that passes the
\* person-likeness heuristic
FallbackTier(v, item) ==
    /\ item[1] = "obj"
    /\ ~PrimarySignal(item)
    /\ ~hasNegativeType(collectTypeTokens(item))
    /\ NamePasses(v, BestName(v, item))

\* the why entry the revision writes for a match by the primary signal
PrimaryWhy(v) == IF v = "v41" THEN <<"M","a","t","c","h"," ","v","i","a"," ","n","a","m","n"," ","(","P","e","r","s","o","n","/","A","g","e","n","t",")">> ELSE <<"M","a","t","c","h"," ","v","i","a"," ","n","a","m","n"," ","(","P","e","r","s","o","n",")">>

\* C22: in the revisions with a person classifier, a returned list holds a
\* Candidate for every raw item of the fallback tier, unless the list is as
\* long as the ceiling, and the why list of that Candidate does not carry
\* the entry of a primary-signal match
C22_FallbackTierAccepted ==
    (AfterDecode /\ variant \in ClassifierVariants /\ outcome.kind = "returned") =>
        \A i \in 1..Len(RawItems) :
            FallbackTier(variant, RawItems[i]) =>
                \/ Len(outcome.list) >= Limit(variant)
                \/ \E k \in 1..Len(origin) :
                        /\ origin[k] = i
                        /\ \A w \in 1..Len(outcome.list[k].why) : outcome.list[k].why[w] # PrimaryWhy(variant)

\* the envelope keys of a revision, in the order its search reads them
EnvelopeKeysOf(v) == IF v = "ao01" THEN <<"records", "items", "hits">> ELSE EnvelopeKeys

\* the value of the first envelope key that holds a list, or no items
RECURSIVE FirstList(_, _, _)
FirstList(json, keys, i) ==
    IF i > Len(keys) THEN <<>>
    ELSE IF IsArray(Get(json, keys[i])) THEN Get(json, keys[i])[2]
    ELSE FirstList(json, keys, i + 1)

\* the revision makes a Candidate of the item when it reaches it
Eligible(v, item) == Accepts(v, item) /\ NamePasses(v, BestName(v, item))

\* C23: when a search has returned after decoding an object, the items it
\* read are the value of the first envelope key, in the revision's order,
\* that holds a list, whatever the keys before it hold; so an empty result
\* of a revision with a person classifier means that list has no item the
\* revision makes a Candidate of
C23_FirstListUsed ==
    (AfterDecode /\ variant \in (ClassifierVariants \cup {"ao01"}) /\ outcome.kind = "returned"
        /\ response.json[1] = "obj") =>
        LET list == FirstList(response.json, EnvelopeKeysOf(variant), 1)
        IN /\ RawItems = list
           /\ (variant \in ClassifierVariants /\ outcome.list = <<>>) =>
                  \A i \in 1..Len(list) : ~Eligible(variant, list[i])

\* the timer of call c fires in this step
TimerFires(c) == timer[c] = "armed" /\ timer'[c] = "fired"

\* the fetch of call c settles in this step and its timer has not fired
SettlesFirst(c) == call[c].pc = "awaitFetch" /\ call'[c].pc # "awaitFetch" /\ timer'[c] # "fired"

TimeoutAborts ==
    \A c \in Calls :
        /\ TimerFires(c) =>
              /\ call[c].pc = "awaitFetch"
              /\ controller'[c] = "aborted"
              /\ upstream'[c].phase = "cancelled"
              /\ call'[c].pc = "done"
              /\ call[c].kind = "search" => call'[c].outcome = Thrown("Error", <<"N","E","T","W","O","R","K","_","O","R","_","T","I","M","E","O","U","T">>)
        /\ SettlesFirst(c) => timer'[c] = "cleared"
        /\ timer[c] = "cleared" => timer'[c] = "cleared" /\ controller'[c] = "created"

\* C24: when the timer of a call fires, its fetch has not settled, the
\* call's own controller is aborted, the request is cancelled and a search
\* fails with NETWORK_OR_TIMEOUT; when the fetch settles first the timer is
\* cleared, and from then on the timer stays cleared and the controller is
\* never aborted
C24_TimeoutAborts == [][TimeoutAborts]_vars

\* one search has timed out, and another call whose fetch settled first has
\* ended with its timer cleared and its controller not aborted
C24_Witness ==
    \E c, d \in Calls :
        /\ call[c].kind = "search" /\ timer[c] = "fired" /\ controller[c] = "aborted"
        /\ call[c].outcome = Thrown("Error", <<"N","E","T","W","O","R","K","_","O","R","_","T","I","M","E","O","U","T">>)
        /\ call[d].pc = "done" /\ timer[d] = "cleared" /\ controller[d] = "created"

\* C25: every call that has started settles: whatever the upstream does,
\* a call that is waiting ends with a list or a thrown error
C25_EveryCallSettles ==
    \A c \in Calls : (call[c].pc \in {"awaitFetch", "awaitJson"}) ~> (call[c].pc = "done")

\* the call has ended as its own input, its own timer and the answer to its
\* own request say
OwnOutcome(c) ==
    LET kind == call[c].kind
        input == call[c].input
    IN IF timer[c] = "fired" THEN call[c].outcome = RejectedOutcome(kind, input, AbortError)
       ELSE CASE upstream[c].phase = "none" ->
                    call[c].outcome = (IF kind = "search" THEN Returned(<<>>) ELSE Returned(EarlyBits(kind, input)))
              [] upstream[c].phase = "rejected" -> call[c].outcome = RejectedOutcome(kind, input, NetworkError)
              [] upstream[c].phase = "status" -> call[c].outcome = BadStatusOutcome(kind, input, upstream[c].status)
              [] upstream[c].phase = "badjson" -> call[c].outcome = BadJsonOutcome(kind, input)
              [] upstream[c].phase = "json" -> call[c].outcome = JsonOutcome(kind, input, upstream[c].json)
              [] OTHER -> FALSE

\* a controller is aborted, and a request cancelled, only in the step in
\* which the timer of the same call fires
OwnAbortOnly ==
    \A c \in Calls :
        (controller[c] # controller'[c] /\ controller'[c] = "aborted") \/ (upstream[c].phase # "cancelled" /\ upstream'[c].phase = "cancelled")
            => TimerFires(c)

\* C26: with several search and enrich calls in flight, the timer of a call
\* aborts the controller and cancels the request of that call only, and a
\* call that has ended has the outcome that its own input, its own timer
\* and the answer to its own request determine
C26_CallsIndependent ==
    /\ [][OwnAbortOnly]_vars
    /\ [](\A c \in Calls : call[c].pc = "done" => OwnOutcome(c))

\* a search has timed out while another search, started with the same
\* query, has returned a Candidate from its own response
C26_Witness ==
    \E c, d \in Calls :
        /\ call[c].kind = "search" /\ call[d].kind = "search" /\ call[c].input = call[d].input
        /\ timer[c] = "fired" /\ call[c].outcome.kind = "thrown"
        /\ call[d].pc = "done" /\ call[d].outcome.kind = "returned" /\ Len(call[d].outcome.list) = 1
        /\ controller[d] = "created"

\* C27: the name parameter of every request a search of PATCH v4.1 has
\* issued holds, as the worker reads it, at least MIN_QUERY_LEN characters,
\* and the worker has not answered it with 400 NAME_TOO_SHORT
C27_SentNameLongEnough ==
    \A c \in Calls :
        (call[c].kind = "search" /\ upstream[c].phase # "none") =>
            /\ Len(WorkerName(upstream[c].name)) >= MIN_QUERY_LEN
            /\ upstream[c].status # 400

\* the indices of the raw items the revision would make a Candidate of
EligibleIndices(v) == SelectSeq([i \in 1..Len(RawItems) |-> i], LAMBDA i : Eligible(v, RawItems[i]))

\* C28: the list a remote person search returns is made of the first
\* min(limit, k) of the k raw items that pass the classifier and the name
\* heuristic, one Candidate each, in upstream order
C28_FirstEligibleItems ==
    (AfterDecode /\ variant \in ClassifierVariants /\ outcome.kind = "returned") =>
        LET eligible == EligibleIndices(variant)
        IN /\ origin = SubSeq(eligible, 1, Min(Limit(variant), Len(eligible)))
           /\ Len(outcome.list) = Len(origin)

\* C29: pickProvider of AO-API-01 called with allowNetwork false has
\* returned a provider, never null, and that provider is the demo provider,
\* whatever the preferred id and whether or not the proxy is registered
C29_NoNetworkMeansDemo ==
    (pc = "picked" /\ variant = "ao01" /\ allowNetwork = "false") =>
        /\ provider # "null"
        /\ provider = "demo"

\* the relation joins two distinct släktkort of its own tree
RelationSound(r) ==
    /\ r.franPersonId # r.tillPersonId
    /\ [id |-> r.franPersonId, treeId |-> r.treeId] \in slaktkort
    /\ [id |-> r.tillPersonId, treeId |-> r.treeId] \in slaktkort

\* a DELETE of a släktkort that succeeds leaves no relation that refers to it
DeleteCascades ==
    (req'.route = "DELETE /trees/:treeId/slaktkort/:id" /\ res'.status = 200 /\ slaktkort' # slaktkort) =>
        \A r \in relationer' : r.franPersonId # asInt(req'.id) /\ r.tillPersonId # asInt(req'.id)

\* C30: at every moment every stored relation joins two distinct släktkort
\* that exist and belong to the tree of the relation, and a successful
\* DELETE of a släktkort removes every relation that refers to it
C30_RelationsSound ==
    /\ [](\A r \in relationer : RelationSound(r))
    /\ [][DeleteCascades]_vars

\* there are two trees with släktkort in both, a relation was stored, and
\* the DELETE of one of its persons has just taken it along
C30_Witness ==
    /\ Cardinality(trees) = 2
    /\ \A t \in trees : \E row \in slaktkort : row.treeId = t
    /\ req.route = "DELETE /trees/:treeId/slaktkort/:id" /\ res.status = 200
    /\ sqlite_sequence.relationer = 1 /\ relationer = {}
=============================================================================
